---------------------------- MODULE Spec2Model ----------------------------
(***************************************************************************)
(* Model of the Mireb Commercial REST API (backend/): the lead lifecycle   *)
(* (controllers/leadController.js, models/Lead.js), the product catalog    *)
(* (controllers/productController.js, models/Product.js) and the request   *)
(* validation in front of them (middleware/validation.js, routes/*.js).    *)
(*                                                                         *)
(* A JavaScript string is a sequence of tokens; a token is a literal of    *)
(* the source ("\n\n", ": ", "Assigne - ", ...), an ISO timestamp or a     *)
(* note text typed by an admin.  Every token has its length in characters  *)
(* (TokLen), so that the maxlength validators of the schemas act as they   *)
(* do on the real strings.  Note texts are texts without leading or        *)
(* trailing white space.                                                   *)
(***************************************************************************)
EXTENDS Integers, Sequences, FiniteSets, Bags, TLC

VARIABLES products, leads, now, last, inflight, users

vars == <<products, leads, now, last, inflight, users>>

(***************************************************************************)
(* Bounds of the model.                                                    *)
(***************************************************************************)
MaxLeads == 1
MaxProducts == 2
MaxTime == 2
MaxStock == 6
MaxQty == 2
MaxFetches == 3
MaxViews == 3
MaxUsers == 3

(***************************************************************************)
(* Values of the store.                                                    *)
(***************************************************************************)
\* JavaScript undefined, for a string field of a request body
Undefined == "undefined"
\* an ObjectId reference that is not set (assignedTo) / failing isMongoId
NoId == 0
\* a Date field that is not set
NoDate == -1

ProductIds == 1 .. MaxProducts
UserIds == {1}
Times == 0 .. MaxTime

(***************************************************************************)
(* Strings as token sequences.                                             *)
(***************************************************************************)
NoteA == "a"
NoteB == "b"
NoteBig == "big"
BlankLine == "\n\n"
Colon == ": "
TagAssigned == "Assigne - "
TagFollowUp == "Suivi programme - "

\* new Date().toISOString(): 2026-01-01T00:00:00.000Z, 24 characters
toISOString(t) == "T" \o ToString(t)

IsTimestamp(tok) == \E t \in 0 .. (MaxTime + 1) : tok = toISOString(t)

TokLen(tok) ==
  CASE tok = NoteA -> 470
    [] tok = NoteB -> 470
    [] tok = NoteBig -> 1000
    [] tok = BlankLine -> 2
    [] tok = Colon -> 2
    [] tok = TagAssigned -> 10
    [] tok = TagFollowUp -> 18
    [] OTHER -> 24

RECURSIVE StrLen(_)
StrLen(s) == IF s = <<>> THEN 0 ELSE TokLen(Head(s)) + StrLen(Tail(s))

IsSpace(tok) == tok = BlankLine

\* String.prototype.trim on a token sequence
RECURSIVE TrimLeft(_)
TrimLeft(s) == IF s # <<>> /\ IsSpace(Head(s)) THEN TrimLeft(Tail(s)) ELSE s

RECURSIVE TrimRight(_)
TrimRight(s) ==
  IF s # <<>> /\ IsSpace(s[Len(s)]) THEN TrimRight(SubSeq(s, 1, Len(s) - 1)) ELSE s

Trim(s) == TrimRight(TrimLeft(s))

IsPrefix(s, t) == Len(s) <= Len(t) /\ SubSeq(t, 1, Len(s)) = s

IsSuffix(s, t) == Len(s) <= Len(t) /\ SubSeq(t, Len(t) - Len(s) + 1, Len(t)) = s

(***************************************************************************)
(* models/Lead.js: the schema, its defaults and validators.                *)
(***************************************************************************)
LeadStatusEnum == {"nouveau", "contacte", "interesse", "converti", "perdu"}

NotesMaxLength == 1000

\* classes of phone numbers of a request: accepted by isMobilePhone('any')
\* and by the schema (TelIntl), accepted by isMobilePhone only because of a
\* leading 0 (TelLocal), accepted by neither (TelBad)
TelIntl == "+243812345678"
TelLocal == "0612345678"
TelBad == "abc"

\* tel.validate.validator: /^[\+]?[1-9][\d]{0,15}$/
telValidator(v) == v = TelIntl

\* NewLead with the default status spelt in English
NewLead_EnglishDefault(tel, produit, t) ==
  [nom |-> "Client", message |-> "Bonjour",
   tel |-> tel, produit |-> produit, status |-> "new", notes |-> <<>>,
   assignedTo |-> NoId, followUpDate |-> NoDate, isArchived |-> FALSE,
   createdAt |-> t]

\* Lead.create({nom, tel, message, produit}): the document with the defaults
NewLead(tel, produit, t) ==
  [nom |-> "Client", message |-> "Bonjour",
   tel |-> tel, produit |-> produit, status |-> "nouveau", notes |-> <<>>,
   assignedTo |-> NoId, followUpDate |-> NoDate, isArchived |-> FALSE,
   createdAt |-> t]

\* document.validate(): the paths of the document their validators reject
leadSchemaErrors(doc) ==
  {f \in {"tel", "status", "notes"} :
     \/ f = "tel" /\ ~telValidator(doc.tel)
     \/ f = "status" /\ doc.status \notin LeadStatusEnum
     \/ f = "notes" /\ StrLen(doc.notes) > NotesMaxLength}

leadSchemaValid(doc) == leadSchemaErrors(doc) = {}

\* a document being handled by a request: mem is the document in memory,
\* stored what the collection holds for it, threw whether save() rejected,
\* errors the paths of the ValidationError
Loaded(doc) == [mem |-> doc, stored |-> doc, threw |-> FALSE, errors |-> {}]

\* document.save(): validates, then writes; a rejected save writes nothing
\* and the exception ends the handler (asyncHandler passes it to next)
LeadSave(r, m) ==
  IF r.threw THEN r
  ELSE IF leadSchemaValid(m)
  THEN [mem |-> m, stored |-> m, threw |-> FALSE, errors |-> {}]
  ELSE [mem |-> m, stored |-> r.stored, threw |-> TRUE, errors |-> leadSchemaErrors(m)]

\* an entry that takes the place of the log instead of following it
AppendEntry_Replace(log, tag, notes, t) ==
  Trim(<<toISOString(t), Colon>> \o tag \o notes)

\* this.notes ? `${this.notes}\n\n${new Date().toISOString()}: ${tag}${notes}` : notes
\* followed by the trim setter of the path
AppendEntry(log, tag, notes, t) ==
  Trim(IF log # <<>>
       THEN log \o <<BlankLine, toISOString(t), Colon>> \o tag \o notes
       ELSE notes)

\* updateStatus refusing to leave the closing statuses converti and perdu
Lead_updateStatus_TerminalLocked(r, newStatus, notes, t) ==
  IF r.mem.status \in {"converti", "perdu"} /\ newStatus # r.mem.status
  THEN [r EXCEPT !.threw = TRUE, !.errors = {"status"}]
  ELSE LeadSave(r, [r.mem EXCEPT !.status = newStatus,
                                 !.notes = IF notes # <<>>
                                           THEN AppendEntry(r.mem.notes, <<>>, notes, t)
                                           ELSE r.mem.notes])

\* leadSchema.methods.updateStatus
Lead_updateStatus(r, newStatus, notes, t) ==
  LeadSave(r, [r.mem EXCEPT !.status = newStatus,
                            !.notes = IF notes # <<>>
                                      THEN AppendEntry(r.mem.notes, <<>>, notes, t)
                                      ELSE r.mem.notes])

\* leadSchema.methods.assignTo
Lead_assignTo(r, userId, notes, t) ==
  LeadSave(r, [r.mem EXCEPT !.assignedTo = userId,
                            !.notes = IF notes # <<>>
                                      THEN AppendEntry(r.mem.notes, <<TagAssigned>>, notes, t)
                                      ELSE r.mem.notes])

\* leadSchema.methods.scheduleFollowUp
Lead_scheduleFollowUp(r, date, notes, t) ==
  LeadSave(r, [r.mem EXCEPT !.followUpDate = date,
                            !.notes = IF notes # <<>>
                                      THEN AppendEntry(r.mem.notes, <<TagFollowUp>>, notes, t)
                                      ELSE r.mem.notes])

\* the note-only branch going through updateStatus with 'contacte'
Lead_appendNote_Contacted(r, notes, t) == Lead_updateStatus(r, "contacte", notes, t)

\* the note-only branch of updateLead: lead.notes = ...; await lead.save()
Lead_appendNote(r, notes, t) ==
  LeadSave(r, [r.mem EXCEPT !.notes = AppendEntry(r.mem.notes, <<>>, notes, t)])

(***************************************************************************)
(* The collections.  leads is the sequence of the lead documents, a lead's *)
(* identifier is its index; products is the sequence of the product        *)
(* documents, Gone standing where findByIdAndDelete removed one.           *)
(***************************************************************************)
Gone == [gone |-> TRUE]

LeadIds == DOMAIN leads

LeadExists(id) == id \in DOMAIN leads

ProductExists(id) == id \in DOMAIN products /\ products[id] # Gone

\* the response of the last request: status code, message, the fields of
\* the errors array, and the document the handler had loaded (<<>> if none)
Reply(op, id, code, msg, errors, before) ==
  [op |-> op, id |-> id, code |-> code, msg |-> msg, errors |-> errors,
   before |-> before]

MsgValidation == "Erreurs de validation"
MsgLeadNotFound == "Lead non trouve"
MsgProductNotFound == "Produit non trouve"
MsgProductUnavailable == "Ce produit n'est plus disponible"
MsgOk == "ok"

(***************************************************************************)
(* middleware/validation.js                                                *)
(***************************************************************************)
\* isMobilePhone('any', {strictMode: false})
isMobilePhone(v) == v \in {TelIntl, TelLocal}

isMongoId(id) == id # NoId

\* the fields validateLead rejects
validateLead(body) ==
  {f \in {"tel", "produit"} :
     \/ f = "tel" /\ ~isMobilePhone(body.tel)
     \/ f = "produit" /\ ~isMongoId(body.produit)}

\* the fields validateLeadUpdate rejects
validateLeadUpdate(body) ==
  {f \in {"status", "notes"} :
     \/ f = "status" /\ body.status # Undefined
                     /\ body.status \notin {"nouveau", "contacte", "interesse", "converti", "perdu"}
     \/ f = "notes" /\ StrLen(Trim(body.notes)) > 1000}

\* validateObjectId
validateObjectId(id) == IF isMongoId(id) THEN {} ELSE {"id"}

\* new Date(followUpDate) of an ISO-8601 string
ParseDate(str) == CHOOSE t \in 0 .. (MaxTime + 1) : toISOString(t) = str

(***************************************************************************)
(* controllers/leadController.js                                           *)
(***************************************************************************)
createLead(body) ==
  /\ UNCHANGED <<products, now, inflight, users>>
  /\ IF validateLead(body) # {}
     THEN /\ last' = Reply("createLead", NoId, 400, MsgValidation, validateLead(body), <<>>)
          /\ UNCHANGED leads
     ELSE IF ~ProductExists(body.produit)
     THEN /\ last' = Reply("createLead", NoId, 404, MsgProductNotFound, {}, <<>>)
          /\ UNCHANGED leads
     ELSE IF ~products[body.produit].isActive
     THEN /\ last' = Reply("createLead", NoId, 400, MsgProductUnavailable, {}, <<>>)
          /\ UNCHANGED leads
     ELSE IF ~leadSchemaValid(NewLead(body.tel, body.produit, now))
     THEN /\ last' = Reply("createLead", NoId, 400, MsgValidation,
                           leadSchemaErrors(NewLead(body.tel, body.produit, now)), <<>>)
          /\ UNCHANGED leads
     ELSE /\ Len(leads) < MaxLeads
          /\ leads' = Append(leads, NewLead(body.tel, body.produit, now))
          /\ last' = Reply("createLead", Len(leads) + 1, 201, MsgOk, {}, <<>>)

\* the document updateLead leaves in the store, and whether a save threw
updateLeadSteps(doc, body, t) ==
  LET notes == Trim(body.notes)
      hasStatus == body.status # Undefined
      hasAssigned == body.assignedTo # NoId
      hasDate == body.followUpDate # Undefined
      r0 == Loaded(doc)
      r1 == IF hasStatus THEN Lead_updateStatus(r0, body.status, notes, t) ELSE r0
      r2 == IF hasAssigned THEN Lead_assignTo(r1, body.assignedTo, notes, t) ELSE r1
      r3 == IF hasDate
            THEN Lead_scheduleFollowUp(r2, ParseDate(body.followUpDate), notes, t)
            ELSE r2
  IN IF notes # <<>> /\ ~hasStatus /\ ~hasAssigned /\ ~hasDate
     THEN Lead_appendNote(r3, notes, t)
     ELSE r3

\* updateLead written as Lead.findByIdAndUpdate(id, {status}) on a route
\* without validateLeadUpdate: no validator sees the status
updateLead_Unvalidated(id, body) ==
  /\ UNCHANGED <<products, now, inflight, users>>
  /\ IF validateObjectId(id) # {}
     THEN /\ last' = Reply("updateLead", id, 400, MsgValidation, {"id"}, <<>>)
          /\ UNCHANGED leads
     ELSE IF ~LeadExists(id)
     THEN /\ last' = Reply("updateLead", id, 404, MsgLeadNotFound, {}, <<>>)
          /\ UNCHANGED leads
     ELSE /\ leads' = [leads EXCEPT ![id].status =
                         IF body.status # Undefined THEN body.status ELSE @]
          /\ last' = Reply("updateLead", id, 200, MsgOk, {}, leads[id])

updateLead(id, body) ==
  /\ UNCHANGED <<products, now, inflight, users>>
  /\ IF validateObjectId(id) # {}
     THEN /\ last' = Reply("updateLead", id, 400, MsgValidation, {"id"}, <<>>)
          /\ UNCHANGED leads
     ELSE IF validateLeadUpdate(body) # {}
     THEN /\ last' = Reply("updateLead", id, 400, MsgValidation, validateLeadUpdate(body), <<>>)
          /\ UNCHANGED leads
     ELSE IF ~LeadExists(id)
     THEN /\ last' = Reply("updateLead", id, 404, MsgLeadNotFound, {}, <<>>)
          /\ UNCHANGED leads
     ELSE LET r == updateLeadSteps(leads[id], body, now)
          IN /\ leads' = [leads EXCEPT ![id] = r.stored]
             /\ last' = IF r.threw
                        THEN Reply("updateLead", id, 400, MsgValidation, r.errors, leads[id])
                        ELSE Reply("updateLead", id, 200, MsgOk, {}, leads[id])

\* deleteLead flipping the flag, so that a second call restores the lead
deleteLead_Toggle(id) ==
  /\ UNCHANGED <<products, now, inflight, users>>
  /\ IF validateObjectId(id) # {} \/ ~LeadExists(id)
     THEN /\ last' = Reply("deleteLead", id, 404, MsgLeadNotFound, {}, <<>>)
          /\ UNCHANGED leads
     ELSE /\ leads' = [leads EXCEPT ![id].isArchived = ~@]
          /\ last' = Reply("deleteLead", id, 200, MsgOk, {}, leads[id])

deleteLead(id) ==
  /\ UNCHANGED <<products, now, inflight, users>>
  /\ IF validateObjectId(id) # {}
     THEN /\ last' = Reply("deleteLead", id, 400, MsgValidation, {"id"}, <<>>)
          /\ UNCHANGED leads
     ELSE IF ~LeadExists(id)
     THEN /\ last' = Reply("deleteLead", id, 404, MsgLeadNotFound, {}, <<>>)
          /\ UNCHANGED leads
     ELSE LET r == LeadSave(Loaded(leads[id]), [leads[id] EXCEPT !.isArchived = TRUE])
          IN /\ leads' = [leads EXCEPT ![id] = r.stored]
             /\ last' = Reply("deleteLead", id, 200, MsgOk, {}, leads[id])

assignLead(id, body) ==
  /\ UNCHANGED <<products, now, inflight, users>>
  /\ IF validateObjectId(id) # {}
     THEN /\ last' = Reply("assignLead", id, 400, MsgValidation, {"id"}, <<>>)
          /\ UNCHANGED leads
     ELSE IF ~LeadExists(id)
     THEN /\ last' = Reply("assignLead", id, 404, MsgLeadNotFound, {}, <<>>)
          /\ UNCHANGED leads
     ELSE LET r == Lead_assignTo(Loaded(leads[id]), body.assignedTo, body.notes, now)
          IN /\ leads' = [leads EXCEPT ![id] = r.stored]
             /\ last' = IF r.threw
                        THEN Reply("assignLead", id, 400, MsgValidation, r.errors, leads[id])
                        ELSE Reply("assignLead", id, 200, MsgOk, {}, leads[id])

scheduleFollowUp(id, body) ==
  /\ UNCHANGED <<products, now, inflight, users>>
  /\ IF validateObjectId(id) # {}
     THEN /\ last' = Reply("scheduleFollowUp", id, 400, MsgValidation, {"id"}, <<>>)
          /\ UNCHANGED leads
     ELSE IF body.followUpDate = Undefined
     THEN /\ last' = Reply("scheduleFollowUp", id, 400, "Date de suivi requise", {}, <<>>)
          /\ UNCHANGED leads
     ELSE IF ~LeadExists(id)
     THEN /\ last' = Reply("scheduleFollowUp", id, 404, MsgLeadNotFound, {}, <<>>)
          /\ UNCHANGED leads
     ELSE LET r == Lead_scheduleFollowUp(Loaded(leads[id]), ParseDate(body.followUpDate),
                                         body.notes, now)
          IN /\ leads' = [leads EXCEPT ![id] = r.stored]
             /\ last' = IF r.threw
                        THEN Reply("scheduleFollowUp", id, 400, MsgValidation, r.errors, leads[id])
                        ELSE Reply("scheduleFollowUp", id, 200, MsgOk, {}, leads[id])

(***************************************************************************)
(* models/Product.js and controllers/productController.js                  *)
(***************************************************************************)
\* JSON values of a request body, with their JavaScript type
Num(v) == [type |-> "number", value |-> v]

Str(v) == [type |-> "string", value |-> v]

Undef == [type |-> "undefined", value |-> 0]

\* Math.max(0, x)
Max0(x) == IF x > 0 THEN x ELSE 0

\* Product.create: the document with the defaults
NewProduct(stock) ==
  [isActive |-> TRUE, stock |-> stock, nom |-> <<"s", "a", "m">>,
   description |-> <<"t", "e", "l">>, prix |-> 299,
   categorie |-> "Electronique", featured |-> FALSE, views |-> 0, createdAt |-> 0]

\* the stock path declared without its min validator
productSchemaValid_NoMin(doc) == doc.stock \in Int

\* stock: min [0, 'Le stock ne peut pas etre negatif']
productSchemaValid(doc) == doc.stock >= 0

\* the virtual with the low-stock limit taken as exclusive
stockStatus_Exclusive(stock) ==
  IF stock = 0 THEN "out_of_stock"
  ELSE IF stock < 5 THEN "low_stock"
  ELSE "in_stock"

\* productSchema.virtual('stockStatus')
stockStatus(stock) ==
  IF stock = 0 THEN "out_of_stock"
  ELSE IF stock <= 5 THEN "low_stock"
  ELSE "in_stock"

\* document.save() of a product: the document the collection holds afterwards
ProductSave(old, new) == IF productSchemaValid(new) THEN new ELSE old

\* body('stock').isInt({min: 0}) of validateProduct
validateProduct(body) ==
  {f \in {"stock"} : ~(body.stock.type = "number" /\ body.stock.value >= 0)}

\* body('stock').optional().isInt({min: 0}) of validateProductUpdate
validateProductUpdate(body) ==
  {f \in {"stock"} : /\ body.stock.type # "undefined"
                     /\ ~(body.stock.type = "number" /\ body.stock.value >= 0)}

createProduct(body) ==
  /\ UNCHANGED <<leads, now, inflight, users>>
  /\ IF validateProduct(body) # {}
     THEN /\ last' = Reply("createProduct", NoId, 400, MsgValidation, validateProduct(body), <<>>)
          /\ UNCHANGED products
     ELSE /\ Len(products) < MaxProducts
          /\ body.stock.value <= MaxStock
          /\ products' = Append(products, [NewProduct(body.stock.value) EXCEPT !.createdAt = now])
          /\ last' = Reply("createProduct", Len(products) + 1, 201, MsgOk, {}, <<>>)

\* allowedFields.forEach(field => { if (updateData[field] !== undefined) ... })
updateProductFields(doc, body) ==
  [doc EXCEPT !.stock = IF body.stock.type # "undefined" THEN body.stock.value ELSE @,
              !.isActive = IF body.isActive # Undefined THEN body.isActive = "true" ELSE @]

updateProduct(id, body) ==
  /\ UNCHANGED <<leads, now, inflight, users>>
  /\ IF validateObjectId(id) # {}
     THEN /\ last' = Reply("updateProduct", id, 400, MsgValidation, {"id"}, <<>>)
          /\ UNCHANGED products
     ELSE IF validateProductUpdate(body) # {}
     THEN /\ last' = Reply("updateProduct", id, 400, MsgValidation, validateProductUpdate(body), <<>>)
          /\ UNCHANGED products
     ELSE IF ~ProductExists(id)
     THEN /\ last' = Reply("updateProduct", id, 404, MsgProductNotFound, {}, <<>>)
          /\ UNCHANGED products
     ELSE LET new == updateProductFields(products[id], body)
          IN /\ new.stock <= MaxStock
             /\ products' = [products EXCEPT ![id] = ProductSave(@, new)]
             /\ last' = IF productSchemaValid(new)
                        THEN Reply("updateProduct", id, 200, MsgOk, {}, products[id])
                        ELSE Reply("updateProduct", id, 400, MsgValidation, {"stock"}, products[id])

deleteProduct(id) ==
  /\ UNCHANGED <<leads, now, inflight, users>>
  /\ IF validateObjectId(id) # {}
     THEN /\ last' = Reply("deleteProduct", id, 400, MsgValidation, {"id"}, <<>>)
          /\ UNCHANGED products
     ELSE IF ~ProductExists(id)
     THEN /\ last' = Reply("deleteProduct", id, 404, MsgProductNotFound, {}, <<>>)
          /\ UNCHANGED products
     ELSE /\ products' = [products EXCEPT ![id] = ProductSave(@, [@ EXCEPT !.isActive = FALSE])]
          /\ last' = Reply("deleteProduct", id, 200, MsgOk, {}, products[id])

permanentDeleteProduct(id) ==
  /\ UNCHANGED <<leads, now, inflight, users>>
  /\ IF validateObjectId(id) # {}
     THEN /\ last' = Reply("permanentDeleteProduct", id, 400, MsgValidation, {"id"}, <<>>)
          /\ UNCHANGED products
     ELSE IF ~ProductExists(id)
     THEN /\ last' = Reply("permanentDeleteProduct", id, 404, MsgProductNotFound, {}, <<>>)
          /\ UNCHANGED products
     ELSE /\ products' = [products EXCEPT ![id] = Gone]
          /\ last' = Reply("permanentDeleteProduct", id, 200, MsgOk, {}, products[id])

\* the switch with set and subtract written without Math.max
adjustStock_Unfloored(stock, quantity, operation) ==
  CASE operation = "add" -> stock + quantity
    [] operation = "subtract" -> stock - quantity
    [] OTHER -> quantity

\* the switch of updateStock: the stock assigned to the document in memory
adjustStock(stock, quantity, operation) ==
  CASE operation = "add" -> stock + quantity
    [] operation = "subtract" -> Max0(stock - quantity)
    [] OTHER -> Max0(quantity)

updateStock(id, body) ==
  /\ UNCHANGED <<leads, now, inflight, users>>
  /\ IF validateObjectId(id) # {}
     THEN /\ last' = Reply("updateStock", id, 400, MsgValidation, {"id"}, <<>>)
          /\ UNCHANGED products
     ELSE IF body.quantity.type # "number"
     THEN /\ last' = Reply("updateStock", id, 400, "Quantite invalide", {}, <<>>)
          /\ UNCHANGED products
     ELSE IF ~ProductExists(id)
     THEN /\ last' = Reply("updateStock", id, 404, MsgProductNotFound, {}, <<>>)
          /\ UNCHANGED products
     ELSE LET op == IF body.operation = Undefined THEN "set" ELSE body.operation
              new == [products[id] EXCEPT
                        !.stock = adjustStock(@, body.quantity.value, op)]
          IN /\ new.stock <= MaxStock
             /\ products' = [products EXCEPT ![id] = ProductSave(@, new)]
             /\ last' = IF productSchemaValid(new)
                        THEN Reply("updateStock", id, 200, MsgOk, {}, products[id])
                        ELSE Reply("updateStock", id, 400, MsgValidation, {"stock"}, products[id])

(***************************************************************************)
(* The detail fetch.  getProductById awaits the store twice: findById      *)
(* loads the document, and incrementViews saves it.  Requests of other     *)
(* clients are served between the two awaits, so the handler is two steps; *)
(* inflight is the bag of the requests that loaded their document and did  *)
(* not save it yet.                                                        *)
(***************************************************************************)
MsgProductNotAvailable == "Produit non disponible"

MsgServerError == "Erreur interne du serveur"

\* a request of getProductById after findById: the document it holds in memory
Fetching(id, doc) == [op |-> "getProductById", id |-> id, doc |-> doc]

\* the method with the increment left out
incrementViews_Unchanged(doc) == doc

\* this.views += 1 of productSchema.methods.incrementViews
incrementViews(doc) == [doc EXCEPT !.views = @ + 1]

\* this.save({ validateBeforeSave: false }) of incrementViews: views is the
\* only modified path of the document, and it is written without validation
SaveViews(stored, doc) == [stored EXCEPT !.views = doc.views]

\* the handler up to its second await
getProductById(id) ==
  /\ UNCHANGED <<products, leads, now, users>>
  /\ IF validateObjectId(id) # {}
     THEN /\ last' = Reply("getProductById", id, 400, MsgValidation, {"id"}, <<>>)
          /\ UNCHANGED inflight
     ELSE IF ~ProductExists(id)
     THEN /\ last' = Reply("getProductById", id, 404, MsgProductNotFound, {}, <<>>)
          /\ UNCHANGED inflight
     ELSE IF ~products[id].isActive
     THEN /\ last' = Reply("getProductById", id, 404, MsgProductNotAvailable, {}, products[id])
          /\ UNCHANGED inflight
     ELSE /\ BagCardinality(inflight) < MaxFetches
          /\ products[id].views < MaxViews
          /\ inflight' = inflight (+) SetToBag({Fetching(id, products[id])})
          /\ UNCHANGED last

\* await product.incrementViews() and the response of the handler
getProductByIdSave(r) ==
  /\ BagIn(r, inflight)
  /\ r.op = "getProductById"
  /\ inflight' = inflight (-) SetToBag({r})
  /\ UNCHANGED <<leads, now, users>>
  /\ IF ~ProductExists(r.id)
     THEN /\ last' = Reply("getProductById", r.id, 500, MsgServerError, {}, r.doc)
          /\ UNCHANGED products
     ELSE /\ products' = [products EXCEPT ![r.id] = SaveViews(@, incrementViews(r.doc))]
          /\ last' = Reply("getProductById", r.id, 200, MsgOk, {}, r.doc)

(***************************************************************************)
(* createLead and updateLead at their awaits.  createLead awaits           *)
(* Product.findById and then Lead.create; updateLead awaits Lead.findById  *)
(* and then the saves of the document it loaded.  save() sends the paths   *)
(* whose value the request changed in its copy of the document.            *)
(***************************************************************************)
\* a request of createLead after its product check
Creating(body) == [op |-> "createLead", body |-> body]

\* a request of updateLead after findById: the document it holds in memory
Updating(id, body, doc) == [op |-> "updateLead", id |-> id, body |-> body, doc |-> doc]

\* the update document of save(): the modified paths over what is stored
SaveModified(stored, loaded, saved) ==
  [f \in DOMAIN stored |-> IF saved[f] # loaded[f] THEN saved[f] ELSE stored[f]]

\* createLead up to the await of Lead.create
createLeadCheck(body) ==
  /\ UNCHANGED <<products, leads, now, users>>
  /\ IF validateLead(body) # {}
     THEN /\ last' = Reply("createLead", NoId, 400, MsgValidation, validateLead(body), <<>>)
          /\ UNCHANGED inflight
     ELSE IF ~ProductExists(body.produit)
     THEN /\ last' = Reply("createLead", NoId, 404, MsgProductNotFound, {}, <<>>)
          /\ UNCHANGED inflight
     ELSE IF ~products[body.produit].isActive
     THEN /\ last' = Reply("createLead", NoId, 400, MsgProductUnavailable, {}, <<>>)
          /\ UNCHANGED inflight
     ELSE /\ BagCardinality(inflight) < MaxFetches
          /\ Len(leads) < MaxLeads
          /\ inflight' = inflight (+) SetToBag({Creating(body)})
          /\ UNCHANGED last

\* the insert repeating the product check of the handler
createLeadInsert_Rechecked(r) ==
  /\ BagIn(r, inflight)
  /\ r.op = "createLead"
  /\ inflight' = inflight (-) SetToBag({r})
  /\ UNCHANGED <<products, now, users>>
  /\ IF ~ProductExists(r.body.produit) \/ ~products[r.body.produit].isActive
     THEN /\ last' = Reply("createLead", NoId, 400, MsgProductUnavailable, {}, <<>>)
          /\ UNCHANGED leads
     ELSE /\ Len(leads) < MaxLeads
          /\ leads' = Append(leads, NewLead(r.body.tel, r.body.produit, now))
          /\ last' = Reply("createLead", Len(leads) + 1, 201, MsgOk, {}, <<>>)

\* await Lead.create({nom, tel, message, produit}) and the response
createLeadInsert(r) ==
  /\ BagIn(r, inflight)
  /\ r.op = "createLead"
  /\ inflight' = inflight (-) SetToBag({r})
  /\ UNCHANGED <<products, now, users>>
  /\ IF ~leadSchemaValid(NewLead(r.body.tel, r.body.produit, now))
     THEN /\ last' = Reply("createLead", NoId, 400, MsgValidation,
                           leadSchemaErrors(NewLead(r.body.tel, r.body.produit, now)), <<>>)
          /\ UNCHANGED leads
     ELSE /\ Len(leads) < MaxLeads
          /\ leads' = Append(leads, NewLead(r.body.tel, r.body.produit, now))
          /\ last' = Reply("createLead", Len(leads) + 1, 201, MsgOk, {}, <<>>)

\* updateLead up to the await of its first save
updateLeadLoad(id, body) ==
  /\ UNCHANGED <<products, leads, now, users>>
  /\ IF validateObjectId(id) # {}
     THEN /\ last' = Reply("updateLead", id, 400, MsgValidation, {"id"}, <<>>)
          /\ UNCHANGED inflight
     ELSE IF validateLeadUpdate(body) # {}
     THEN /\ last' = Reply("updateLead", id, 400, MsgValidation, validateLeadUpdate(body), <<>>)
          /\ UNCHANGED inflight
     ELSE IF ~LeadExists(id)
     THEN /\ last' = Reply("updateLead", id, 404, MsgLeadNotFound, {}, <<>>)
          /\ UNCHANGED inflight
     ELSE /\ BagCardinality(inflight) < MaxFetches
          /\ inflight' = inflight (+) SetToBag({Updating(id, body, leads[id])})
          /\ UNCHANGED last

\* the saves written over the stored document as a whole
updateLeadSave_Reloaded(r) ==
  /\ BagIn(r, inflight)
  /\ r.op = "updateLead"
  /\ inflight' = inflight (-) SetToBag({r})
  /\ UNCHANGED <<products, now, users>>
  /\ LET m == updateLeadSteps(leads[r.id], r.body, now)
     IN /\ leads' = [leads EXCEPT ![r.id] = m.stored]
        /\ last' = IF m.threw
                   THEN Reply("updateLead", r.id, 400, MsgValidation, m.errors, r.doc)
                   ELSE Reply("updateLead", r.id, 200, MsgOk, {}, r.doc)

\* the saves of updateLead and its response
updateLeadSave(r) ==
  /\ BagIn(r, inflight)
  /\ r.op = "updateLead"
  /\ inflight' = inflight (-) SetToBag({r})
  /\ UNCHANGED <<products, now, users>>
  /\ LET m == updateLeadSteps(r.doc, r.body, now)
     IN /\ leads' = [leads EXCEPT ![r.id] = SaveModified(@, r.doc, m.stored)]
        /\ last' = IF m.threw
                   THEN Reply("updateLead", r.id, 400, MsgValidation, m.errors, r.doc)
                   ELSE Reply("updateLead", r.id, 200, MsgOk, {}, r.doc)

(***************************************************************************)
(* Queries: the filter documents of Model.find / countDocuments / $match.  *)
(* A filter is a sequence of conditions <<path, operator, value>>.         *)
(***************************************************************************)
\* a path that was never set (followUpDate, assignedTo) matches no comparison
IsSet(v) == v # NoDate

Satisfies(v, operator, value) ==
  CASE operator = "$eq" -> v = value
    [] operator = "$lte" -> IsSet(v) /\ v <= value
    [] operator = "$gte" -> IsSet(v) /\ v >= value
    [] operator = "$nin" -> v \notin value
    [] OTHER -> FALSE

Matches(doc, filter) ==
  \A i \in DOMAIN filter : Satisfies(doc[filter[i][1]], filter[i][2], filter[i][3])

\* Lead.find(filter): the identifiers of the matching leads
LeadFind(filter) == {id \in LeadIds : Matches(leads[id], filter)}

\* Lead.countDocuments(filter)
LeadCount(filter) == Cardinality(LeadFind(filter))

\* getNeedingFollowUp without the isArchived condition
Lead_getNeedingFollowUp_Archived(t) ==
  LeadFind(<< <<"followUpDate", "$lte", t>>,
              <<"status", "$nin", {"converti", "perdu"}>> >>)

\* leadSchema.statics.getNeedingFollowUp
Lead_getNeedingFollowUp(t) ==
  LeadFind(<< <<"followUpDate", "$lte", t>>,
              <<"status", "$nin", {"converti", "perdu"}>>,
              <<"isArchived", "$eq", FALSE>> >>)

\* leadSchema.statics.getStats: $group by status, {status, count}
Lead_getStats ==
  {[status |-> st, count |-> Cardinality({id \in LeadIds : leads[id].status = st})] :
     st \in {leads[id].status : id \in LeadIds}}

\* getAllLeads: the filter built from the query string
getAllLeadsFilter(q) ==
  << <<"isArchived", "$eq", FALSE>> >>
  \o (IF q.status # Undefined THEN << <<"status", "$eq", q.status>> >> ELSE <<>>)
  \o (IF q.assignedTo # NoId THEN << <<"assignedTo", "$eq", q.assignedTo>> >> ELSE <<>>)

getAllLeads(q) == LeadFind(getAllLeadsFilter(q))

\* getMyLeads of the authenticated user
getMyLeads(user, q) ==
  LeadFind(<< <<"assignedTo", "$eq", user>>, <<"isArchived", "$eq", FALSE>> >>
           \o (IF q.status # Undefined THEN << <<"status", "$eq", q.status>> >> ELSE <<>>))

\* exportLeads
exportLeads(q) ==
  LeadFind(<< <<"isArchived", "$eq", FALSE>> >>
           \o (IF q.status # Undefined THEN << <<"status", "$eq", q.status>> >> ELSE <<>>))

\* getLeadById: the lead returned, <<>> for the 404
getLeadById(id) == IF LeadExists(id) THEN leads[id] ELSE <<>>

RecentWindow == 30

TopProductsLimit == 10

\* getLeadStats, recentActivity: leads per day of the last 30 days
recentStats(t) ==
  LET recent == LeadFind(<< <<"createdAt", "$gte", t - RecentWindow>>,
                            <<"isArchived", "$eq", FALSE>> >>)
  IN {[day |-> d, count |-> Cardinality({id \in recent : leads[id].createdAt = d})] :
        d \in {leads[id].createdAt : id \in recent}}

\* getLeadStats, topProducts: $group by produit, $sort count desc, $limit 10
topProducts ==
  LET kept == LeadFind(<< <<"isArchived", "$eq", FALSE>> >>)
      groups == {[product |-> p, count |-> Cardinality({id \in kept : leads[id].produit = p})] :
                   p \in {leads[id].produit : id \in kept}}
      Before(g, h) == g.count > h.count \/ (g.count = h.count /\ g.product < h.product)
  IN {g \in groups : Cardinality({h \in groups : Before(h, g)}) < TopProductsLimit}

\* getLeadStats, conversion.total and conversion.converted
totalLeads == LeadCount(<< <<"isArchived", "$eq", FALSE>> >>)

convertedLeads ==
  LeadCount(<< <<"status", "$eq", "converti">>, <<"isArchived", "$eq", FALSE>> >>)

(***************************************************************************)
(* Listings: query-string values, sort / skip / limit of a cursor, and the *)
(* paginated response of utils/response.js.  A query-string value is       *)
(* Num(v) for a string of digits (sign allowed), Str(v) for another        *)
(* string, Undef when the parameter is absent.                             *)
(***************************************************************************)
\* the upper limit validatePagination accepts
MaxPageLimit == 100

\* JSON null of nextPage / prevPage (page numbers are at least 1)
Null == 0

\* isInt({min, max}) / isFloat({min}) of express-validator on a query value
isInt(v, min, max) == v.type = "number" /\ min <= v.value /\ v.value <= max

isFloatMin(v, min) == v.type = "number" /\ v.value >= min

\* validatePagination: the parameters it rejects
validatePagination(q) ==
  {f \in {"page", "limit"} :
     \/ f = "page" /\ q.page.type # "undefined" /\ ~(q.page.type = "number" /\ q.page.value >= 1)
     \/ f = "limit" /\ q.limit.type # "undefined" /\ ~isInt(q.limit, 1, MaxPageLimit)}

ProductCategories ==
  {"Electronique", "Mode", "Maison & Jardin", "Automobile", "Sante & Beaute",
   "Sports & Loisirs", "Industrie & BTP"}

\* validateProductQuery: the parameters it rejects
validateProductQuery(q) ==
  {f \in {"categorie", "minPrice", "maxPrice", "sortBy", "sortOrder"} :
     \/ f = "categorie" /\ q.categorie # Undefined /\ q.categorie \notin ProductCategories
     \/ f = "sortBy" /\ q.sortBy # Undefined
                     /\ q.sortBy \notin {"nom", "prix", "createdAt", "views"}
     \/ f = "sortOrder" /\ q.sortOrder # Undefined /\ q.sortOrder \notin {"asc", "desc"}
     \/ f = "minPrice" /\ q.minPrice.type # "undefined" /\ ~isFloatMin(q.minPrice, 0)
     \/ f = "maxPrice" /\ q.maxPrice.type # "undefined" /\ ~isFloatMin(q.maxPrice, 0)}

\* const {page = 1, limit = d} = req.query
OrDefault(v, d) == IF v.type = "undefined" THEN d ELSE v.value

\* a skip that passes over one record too many
Skip_OnePageMore(seq, n) ==
  IF seq = <<>> THEN seq ELSE SubSeq(seq, n + 2, Len(seq))

\* cursor.skip(n)
RECURSIVE Skip(_, _)
Skip(seq, n) == IF n <= 0 \/ seq = <<>> THEN seq ELSE Skip(Tail(seq), n - 1)

\* cursor.limit(n); limit(0) sets no limit
RECURSIVE Take(_, _)
Take(seq, n) == IF n <= 0 \/ seq = <<>> THEN <<>> ELSE <<Head(seq)>> \o Take(Tail(seq), n - 1)

Limit(seq, n) == IF n = 0 THEN seq ELSE Take(seq, n)

\* the order of two sort keys (one value for each field of the sort)
RECURSIVE KeyLess(_, _)
KeyLess(a, b) ==
  /\ a # <<>>
  /\ \/ Head(a) < Head(b)
     \/ Head(a) = Head(b) /\ KeyLess(Tail(a), Tail(b))

\* cursor.sort: the identifiers of S by descending (or ascending) key, the
\* older document first among equal keys
RECURSIVE SortIds(_, _, _)
SortIds(S, key, descending) ==
  IF S = {} THEN <<>>
  ELSE LET First(i) == \A j \in S \ {i} :
                         IF key[i] = key[j] THEN i < j
                         ELSE IF descending THEN KeyLess(key[j], key[i])
                              ELSE KeyLess(key[i], key[j])
           i == CHOOSE i \in S : First(i)
       IN <<i>> \o SortIds(S \ {i}, key, descending)

\* the quotient rounded down
Ceil_Floor(total, limit) == total \div limit

\* Math.ceil(total / limit)
Ceil(total, limit) == (total + limit - 1) \div limit

\* the envelope announcing a next page whenever the page is not the last one
Pagination_NextUnlessLast(page, limit, total) ==
  LET totalPages == Ceil(total, limit)
      hasNextPage == page # totalPages
      hasPrevPage == page > 1
  IN [currentPage |-> page, totalPages |-> totalPages, totalItems |-> total,
      itemsPerPage |-> limit, hasNextPage |-> hasNextPage, hasPrevPage |-> hasPrevPage,
      nextPage |-> IF hasNextPage THEN page + 1 ELSE Null,
      prevPage |-> IF hasPrevPage THEN page - 1 ELSE Null]

\* sendPaginatedResponse: meta.pagination
Pagination(page, limit, total) ==
  LET totalPages == Ceil(total, limit)
      hasNextPage == page < totalPages
      hasPrevPage == page > 1
  IN [currentPage |-> page, totalPages |-> totalPages, totalItems |-> total,
      itemsPerPage |-> limit, hasNextPage |-> hasNextPage, hasPrevPage |-> hasPrevPage,
      nextPage |-> IF hasNextPage THEN page + 1 ELSE Null,
      prevPage |-> IF hasPrevPage THEN page - 1 ELSE Null]

NoPagination == Pagination(1, 1, 0)

\* a listing request and its response: query is req.query, data holds the
\* identifiers of the documents returned, in order, limit is the value handed
\* to cursor.limit
ListReply(op, query, code, msg, errors, data, pagination, limit) ==
  [op |-> op, id |-> NoId, code |-> code, msg |-> msg, errors |-> errors,
   before |-> <<>>, query |-> query, data |-> data, pagination |-> pagination,
   limit |-> limit]

\* handleValidationErrors of a listing route
ListRejected(op, query, errors) ==
  ListReply(op, query, 400, MsgValidation, errors, <<>>, NoPagination, 0)

(***************************************************************************)
(* controllers/productController.js: the public listings.                  *)
(***************************************************************************)
\* {$regex: q, $options: 'i'} on a string: q occurs in it
IsInfix(q, str) ==
  \E i \in 0 .. (Len(str) - Len(q)) : SubSeq(str, i + 1, i + Len(q)) = q

\* Product.find(filter) with the $or of the two $regex conditions when a
\* search term is given: the identifiers of the matching products
ProductFind(filter, search) ==
  {id \in DOMAIN products :
     /\ ProductExists(id)
     /\ Matches(products[id], filter)
     /\ search # <<>> => \/ IsInfix(search, products[id].nom)
                         \/ IsInfix(search, products[id].description)}

\* the filter with the upper price bound dropped when a lower one is given
getAllProductsFilter_OneBound(q) ==
  << <<"isActive", "$eq", TRUE>> >>
  \o (IF q.categorie # Undefined THEN << <<"categorie", "$eq", q.categorie>> >> ELSE <<>>)
  \o (IF q.minPrice.type # "undefined" THEN << <<"prix", "$gte", q.minPrice.value>> >>
      ELSE IF q.maxPrice.type # "undefined" THEN << <<"prix", "$lte", q.maxPrice.value>> >>
      ELSE <<>>)
  \o (IF q.featured # Undefined THEN << <<"featured", "$eq", q.featured = "true">> >> ELSE <<>>)

\* getAllProducts: the filter built from the query string
getAllProductsFilter(q) ==
  << <<"isActive", "$eq", TRUE>> >>
  \o (IF q.categorie # Undefined THEN << <<"categorie", "$eq", q.categorie>> >> ELSE <<>>)
  \o (IF q.minPrice.type # "undefined" THEN << <<"prix", "$gte", q.minPrice.value>> >> ELSE <<>>)
  \o (IF q.maxPrice.type # "undefined" THEN << <<"prix", "$lte", q.maxPrice.value>> >> ELSE <<>>)
  \o (IF q.featured # Undefined THEN << <<"featured", "$eq", q.featured = "true">> >> ELSE <<>>)

getAllProducts(q) ==
  /\ UNCHANGED <<products, leads, now, inflight, users>>
  /\ IF validatePagination(q) # {}
     THEN last' = ListRejected("getAllProducts", q, validatePagination(q))
     ELSE IF validateProductQuery(q) # {}
     THEN last' = ListRejected("getAllProducts", q, validateProductQuery(q))
     ELSE LET page == OrDefault(q.page, 1)
              limit == OrDefault(q.limit, 12)
              found == ProductFind(getAllProductsFilter(q), q.search)
              sortBy == IF q.sortBy = Undefined THEN "createdAt" ELSE q.sortBy
              descending == q.sortOrder \in {Undefined, "desc"}
              sorted == SortIds(found, [id \in found |-> <<products[id][sortBy]>>], descending)
          IN last' = ListReply("getAllProducts", q, 200, MsgOk, {},
                               Limit(Skip(sorted, (page - 1) * limit), limit),
                               Pagination(page, limit, Cardinality(found)), limit)

\* validateSearch (q of 1 to 100 characters once trimmed) and the !q test
\* of searchProducts: an absent or empty term is answered 400
validateSearch(q) == IF q.q = <<>> THEN {"q"} ELSE {}

\* sort({views: -1, createdAt: -1})
SortByViews(S) ==
  SortIds(S, [id \in S |-> <<products[id].views, products[id].createdAt>>], TRUE)

searchProducts(q) ==
  /\ UNCHANGED <<products, leads, now, inflight, users>>
  /\ IF validatePagination(q) # {}
     THEN last' = ListRejected("searchProducts", q, validatePagination(q))
     ELSE IF validateSearch(q) # {}
     THEN last' = ListRejected("searchProducts", q, validateSearch(q))
     ELSE LET page == OrDefault(q.page, 1)
              limit == OrDefault(q.limit, 12)
              found == ProductFind(<< <<"isActive", "$eq", TRUE>> >>, q.q)
              sorted == SortByViews(found)
          IN last' = ListReply("searchProducts", q, 200, MsgOk, {},
                               Limit(Skip(sorted, (page - 1) * limit), limit),
                               Pagination(page, limit, Cardinality(found)), limit)

\* getPopularProducts without the isActive condition of its filter
getPopularProducts_All(q) ==
  /\ UNCHANGED <<products, leads, now, inflight, users>>
  /\ q.limit.type # "string"
  /\ LET limit == OrDefault(q.limit, 6)
         found == ProductFind(<<>>, <<>>)
     IN last' = ListReply("getPopularProducts", q, 200, MsgOk, {},
                          Limit(SortByViews(found), limit), NoPagination, limit)

\* getPopularProducts: the route runs no validator
getPopularProducts(q) ==
  /\ UNCHANGED <<products, leads, now, inflight, users>>
  /\ q.limit.type # "string"
  /\ LET limit == OrDefault(q.limit, 6)
         found == ProductFind(<< <<"isActive", "$eq", TRUE>> >>, <<>>)
     IN last' = ListReply("getPopularProducts", q, 200, MsgOk, {},
                          Limit(SortByViews(found), limit), NoPagination, limit)

\* getFeaturedProducts: the route runs no validator
getFeaturedProducts(q) ==
  /\ UNCHANGED <<products, leads, now, inflight, users>>
  /\ q.limit.type # "string"
  /\ LET limit == OrDefault(q.limit, 6)
         found == ProductFind(<< <<"isActive", "$eq", TRUE>>, <<"featured", "$eq", TRUE>> >>, <<>>)
         sorted == SortIds(found, [id \in found |-> <<products[id].createdAt>>], TRUE)
     IN last' = ListReply("getFeaturedProducts", q, 200, MsgOk, {},
                          Limit(sorted, limit), NoPagination, limit)

\* {$match: {isActive: true}}, {$group: {_id: '$categorie', count: {$sum: 1}}}
CategoryCounts ==
  LET active == ProductFind(<< <<"isActive", "$eq", TRUE>> >>, <<>>)
  IN {[name |-> c,
       count |-> Cardinality({id \in active : products[id].categorie = c})] :
        c \in {products[id].categorie : id \in active}}

\* getCategoriesStats: the groups by decreasing count; the aggregation fixes
\* no order among groups of equal count
getCategoriesStats ==
  /\ UNCHANGED <<products, leads, now, inflight, users>>
  /\ \E data \in [1 .. Cardinality(CategoryCounts) -> CategoryCounts] :
       /\ {data[i] : i \in DOMAIN data} = CategoryCounts
       /\ \A i, j \in DOMAIN data : i < j => data[i].count >= data[j].count
       /\ last' = ListReply("getCategoriesStats", <<>>, 200, MsgOk, {}, data,
                            NoPagination, 0)

(***************************************************************************)
(* controllers/leadController.js: the paginated listings.                  *)
(***************************************************************************)
\* sort({createdAt: -1})
SortLeads(S) == SortIds(S, [id \in S |-> <<leads[id].createdAt>>], TRUE)

\* GET /api/leads
getAllLeadsPage(q) ==
  /\ UNCHANGED <<products, leads, now, inflight, users>>
  /\ IF validatePagination(q) # {}
     THEN last' = ListRejected("getAllLeads", q, validatePagination(q))
     ELSE LET page == OrDefault(q.page, 1)
              limit == OrDefault(q.limit, 20)
              found == getAllLeads(q)
          IN last' = ListReply("getAllLeads", q, 200, MsgOk, {},
                               Limit(Skip(SortLeads(found), (page - 1) * limit), limit),
                               Pagination(page, limit, Cardinality(found)), limit)

\* GET /api/leads/my-leads of the authenticated user
getMyLeadsPage(user, q) ==
  /\ UNCHANGED <<products, leads, now, inflight, users>>
  /\ IF validatePagination(q) # {}
     THEN last' = ListRejected("getMyLeads", q, validatePagination(q))
     ELSE LET page == OrDefault(q.page, 1)
              limit == OrDefault(q.limit, 20)
              found == getMyLeads(user, q)
          IN last' = ListReply("getMyLeads", q, 200, MsgOk, {},
                               Limit(Skip(SortLeads(found), (page - 1) * limit), limit),
                               Pagination(page, limit, Cardinality(found)), limit)

\* the rate computed without the test of the total: 0 / 0 is NaN (here -1)
conversionRate_Unguarded(converted, total) ==
  IF total = 0 THEN -1 ELSE (2 * converted * 10000 + total) \div (2 * total)

\* totalLeads > 0 ? (convertedLeads / totalLeads * 100).toFixed(2) : 0, in
\* hundredths of a percent
conversionRate(converted, total) ==
  IF total > 0 THEN (2 * converted * 10000 + total) \div (2 * total) ELSE 0

\* GET /api/leads/stats
getLeadStats ==
  /\ UNCHANGED <<products, leads, now, inflight, users>>
  /\ last' = [op |-> "getLeadStats", id |-> NoId, code |-> 200, msg |-> MsgOk,
              errors |-> {}, before |-> <<>>,
              byStatus |-> Lead_getStats,
              needingFollowUp |-> Cardinality(Lead_getNeedingFollowUp(now)),
              recentActivity |-> recentStats(now),
              topProducts |-> topProducts,
              conversion |-> [total |-> totalLeads, converted |-> convertedLeads,
                              rate |-> conversionRate(convertedLeads, totalLeads)]]

\* the clock of new Date()
(***************************************************************************)
(* models/User.js and utils/jwt.js.  users is the sequence of the user     *)
(* documents, a user's identifier is its index; the API removes no user.   *)
(***************************************************************************)
\* bcrypt: the hash the pre-save hook stores for a password
Hash(password) == <<"bcrypt", password>>

\* userSchema.methods.comparePassword
comparePassword(user, password) == user.password = Hash(password)

\* User.create: the document with the defaults
NewUser(name, email, password, role) ==
  [name |-> name, email |-> email, password |-> Hash(password), role |-> role,
   isActive |-> TRUE, lastLogin |-> NoDate]

\* User.create of utils/seed.js seedAdmin
SeedAdmin == NewUser("Administrateur Mireb", "mireb@", "Fiacre-19", "admin")

\* userSchema.methods.updateLastLogin
updateLastLogin(user, t) == [user EXCEPT !.lastLogin = t]

UserExists(id) == id \in DOMAIN users

\* User.findOne({email})
FindByEmail(email) == {id \in DOMAIN users : users[id].email = email}

\* expiresIn: '7d', in days
TokenLife == 7

\* no Authorization header, or one that is not 'Bearer <token>'
NoToken == [id |-> NoId, exp |-> 0, signed |-> FALSE]

\* generateToken: jwt.sign of the user's id with the secret of the server
generateToken(id, t) == [id |-> id, exp |-> t + TokenLife, signed |-> TRUE]

\* verifyToken: jwt.verify checks the signature and the expiry
verifyToken(token, t) == token.signed /\ token.exp > t

MsgTokenRequired == "Token d'authentification requis"
MsgTokenInvalid == "Token invalide ou expire"
MsgUserNotFound == "Utilisateur non trouve"
MsgAccountDisabled == "Compte utilisateur desactive"
MsgForbidden == "Acces refuse - Privileges insuffisants"
MsgBadCredentials == "Email ou mot de passe incorrect"
MsgLoginDisabled == "Votre compte a ete desactive. Contactez l'administrateur."
MsgOwnAccount == "Vous ne pouvez pas modifier le statut de votre propre compte"

\* authenticate: req.user, or the 401 the middleware answers
authenticate(token, t) ==
  IF token = NoToken THEN [code |-> 401, msg |-> MsgTokenRequired, user |-> NoId]
  ELSE IF ~verifyToken(token, t) THEN [code |-> 401, msg |-> MsgTokenInvalid, user |-> NoId]
  ELSE IF ~UserExists(token.id) THEN [code |-> 401, msg |-> MsgUserNotFound, user |-> NoId]
  ELSE IF ~users[token.id].isActive
  THEN [code |-> 401, msg |-> MsgAccountDisabled, user |-> NoId]
  ELSE [code |-> 0, msg |-> MsgOk, user |-> token.id]

\* authorize letting every authenticated user through
authorize_Authenticated(user, roles) == TRUE

\* authorize(...roles): roles.includes(req.user.role)
authorize(user, roles) == user.role \in roles

\* requireAdmin = authorize('admin')
requireAdmin(user) == authorize(user, {"admin"})

\* sendError of a middleware: the request ends there, and the response names
\* no route
Denied(by, code, msg) ==
  /\ last' = Reply(by, NoId, code, msg, {}, <<>>)
  /\ UNCHANGED <<products, leads, now, inflight, users>>

\* a route behind authenticate
Authenticated(token, Handler) ==
  IF authenticate(token, now).code # 0
  THEN Denied("authenticate", 401, authenticate(token, now).msg)
  ELSE Handler

\* a route behind authenticate and requireAdmin
AdminOnly(token, Handler) ==
  IF authenticate(token, now).code # 0
  THEN Denied("authenticate", 401, authenticate(token, now).msg)
  ELSE IF ~requireAdmin(users[authenticate(token, now).user])
  THEN Denied("authorize", 403, MsgForbidden)
  ELSE Handler

(***************************************************************************)
(* controllers/authController.js                                           *)
(***************************************************************************)
\* the response of register and login: the user and a token
AuthReply(op, id, code, msg, token) ==
  [op |-> op, id |-> id, code |-> code, msg |-> msg, errors |-> {},
   before |-> <<>>, token |-> token]

\* the response of a request of an authenticated user
ActorReply(op, actor, id, code, msg, before) ==
  [op |-> op, id |-> id, code |-> code, msg |-> msg, errors |-> {},
   before |-> before, actor |-> actor]

EmailBad == "not-an-email"

\* the password classes of a request: accepted by validateRegister, too
\* short for it and for changePassword, absent
PasswordShort == "abc"

\* validateRegister: isEmail, and a password of 6 characters or more
validateRegister(body) ==
  {f \in {"email", "password"} :
     \/ f = "email" /\ body.email = EmailBad
     \/ f = "password" /\ body.password \in {PasswordShort, Undefined}}

\* validateLogin: isEmail, and a password that is not empty
validateLogin(body) ==
  {f \in {"email", "password"} :
     \/ f = "email" /\ body.email = EmailBad
     \/ f = "password" /\ body.password = Undefined}

\* register storing the role of the request body when there is one
register_RoleFromBody(body) ==
  /\ UNCHANGED <<products, leads, now, inflight>>
  /\ IF validateRegister(body) # {} \/ FindByEmail(body.email) # {}
     THEN /\ last' = AuthReply("register", NoId, 400, MsgValidation, NoToken)
          /\ UNCHANGED users
     ELSE /\ Len(users) < MaxUsers
          /\ users' = Append(users,
                        updateLastLogin(
                          NewUser(body.name, body.email, body.password,
                                  IF body.role # Undefined THEN body.role ELSE "user"),
                          now))
          /\ last' = AuthReply("register", Len(users) + 1, 201, MsgOk,
                               generateToken(Len(users) + 1, now))

register(body) ==
  /\ UNCHANGED <<products, leads, now, inflight>>
  /\ IF validateRegister(body) # {}
     THEN /\ last' = [AuthReply("register", NoId, 400, MsgValidation, NoToken)
                        EXCEPT !.errors = validateRegister(body)]
          /\ UNCHANGED users
     ELSE IF FindByEmail(body.email) # {}
     THEN /\ last' = AuthReply("register", NoId, 409, "Un utilisateur avec cet email existe deja",
                               NoToken)
          /\ UNCHANGED users
     ELSE /\ Len(users) < MaxUsers
          /\ users' = Append(users,
                        updateLastLogin(NewUser(body.name, body.email, body.password, "user"),
                                        now))
          /\ last' = AuthReply("register", Len(users) + 1, 201, MsgOk,
                               generateToken(Len(users) + 1, now))

\* login without the test of the active flag
login_NoActiveCheck(body) ==
  /\ UNCHANGED <<products, leads, now, inflight>>
  /\ IF validateLogin(body) # {} \/ FindByEmail(body.email) = {}
     THEN /\ last' = AuthReply("login", NoId, 401, MsgBadCredentials, NoToken)
          /\ UNCHANGED users
     ELSE LET id == CHOOSE u \in FindByEmail(body.email) : TRUE
          IN IF ~comparePassword(users[id], body.password)
             THEN /\ last' = AuthReply("login", NoId, 401, MsgBadCredentials, NoToken)
                  /\ UNCHANGED users
             ELSE /\ users' = [users EXCEPT ![id] = updateLastLogin(@, now)]
                  /\ last' = AuthReply("login", id, 200, MsgOk, generateToken(id, now))

login(body) ==
  /\ UNCHANGED <<products, leads, now, inflight>>
  /\ IF validateLogin(body) # {}
     THEN /\ last' = [AuthReply("login", NoId, 400, MsgValidation, NoToken)
                        EXCEPT !.errors = validateLogin(body)]
          /\ UNCHANGED users
     ELSE IF FindByEmail(body.email) = {}
     THEN /\ last' = AuthReply("login", NoId, 401, MsgBadCredentials, NoToken)
          /\ UNCHANGED users
     ELSE LET id == CHOOSE u \in FindByEmail(body.email) : TRUE
          IN IF ~users[id].isActive
             THEN /\ last' = AuthReply("login", id, 401, MsgLoginDisabled, NoToken)
                  /\ UNCHANGED users
             ELSE IF ~comparePassword(users[id], body.password)
             THEN /\ last' = AuthReply("login", id, 401, MsgBadCredentials, NoToken)
                  /\ UNCHANGED users
             ELSE /\ users' = [users EXCEPT ![id] = updateLastLogin(@, now)]
                  /\ last' = AuthReply("login", id, 200, MsgOk, generateToken(id, now))

\* getProfile, verifyToken and logout: req.user is sent back, nothing is stored
getProfile(actor) ==
  /\ UNCHANGED <<products, leads, now, inflight, users>>
  /\ last' = ActorReply("getProfile", actor, actor, 200, MsgOk, users[actor])

\* updateProfile: only name and profileImage are read from the body
updateProfile(actor, body) ==
  /\ UNCHANGED <<products, leads, now, inflight>>
  /\ users' = [users EXCEPT ![actor].name = IF body.name # Undefined THEN body.name ELSE @]
  /\ last' = ActorReply("updateProfile", actor, actor, 200, MsgOk, users[actor])

changePassword(actor, body) ==
  /\ UNCHANGED <<products, leads, now, inflight>>
  /\ IF body.currentPassword = Undefined \/ body.newPassword = Undefined
     THEN /\ last' = ActorReply("changePassword", actor, actor, 400,
                                "Ancien et nouveau mot de passe requis", <<>>)
          /\ UNCHANGED users
     ELSE IF body.newPassword = PasswordShort
     THEN /\ last' = ActorReply("changePassword", actor, actor, 400,
                                "Le nouveau mot de passe doit contenir au moins 6 caracteres", <<>>)
          /\ UNCHANGED users
     ELSE IF ~comparePassword(users[actor], body.currentPassword)
     THEN /\ last' = ActorReply("changePassword", actor, actor, 400,
                                "Mot de passe actuel incorrect", <<>>)
          /\ UNCHANGED users
     ELSE /\ users' = [users EXCEPT ![actor].password = Hash(body.newPassword)]
          /\ last' = ActorReply("changePassword", actor, actor, 200, MsgOk, users[actor])

\* getAllUsers: the users of the role asked for, newest first
getAllUsers(q) ==
  /\ UNCHANGED <<products, leads, now, inflight, users>>
  /\ LET found == {id \in DOMAIN users : q.role # Undefined => users[id].role = q.role}
     IN last' = ListReply("getAllUsers", q, 200, MsgOk, {},
                          SortIds(found, [id \in found |-> <<id>>], TRUE),
                          NoPagination, 10)

\* a request of toggleUserStatus that went through authenticate, requireAdmin
\* and validateObjectId: req.user, req.params.id, req.body.isActive
Toggling(actor, id, isActive) ==
  [op |-> "toggleUserStatus", actor |-> actor, id |-> id, isActive |-> isActive]

\* PUT /api/auth/users/:id/status up to the handler
toggleUserStatusRoute(token, id, body) ==
  AdminOnly(token,
            /\ UNCHANGED <<products, leads, now, users>>
            /\ IF validateObjectId(id) # {}
               THEN /\ last' = Reply("toggleUserStatus", id, 400, MsgValidation, {"id"}, <<>>)
                    /\ UNCHANGED inflight
               ELSE /\ BagCardinality(inflight) < MaxFetches
                    /\ inflight' = inflight (+)
                         SetToBag({Toggling(authenticate(token, now).user, id, body.isActive)})
                    /\ UNCHANGED last)

\* the handler without the test of the own account
toggleUserStatusSave_Self(actor, id, isActive) ==
  IF ~UserExists(id)
  THEN /\ last' = ActorReply("toggleUserStatus", actor, id, 404, MsgUserNotFound, <<>>)
       /\ UNCHANGED users
  ELSE /\ users' = [users EXCEPT ![id].isActive = isActive]
       /\ last' = ActorReply("toggleUserStatus", actor, id, 200, MsgOk, users[id])

\* the handler: User.findById(id), the test of the own account, user.save()
toggleUserStatusSave(actor, id, isActive) ==
  IF ~UserExists(id)
  THEN /\ last' = ActorReply("toggleUserStatus", actor, id, 404, MsgUserNotFound, <<>>)
       /\ UNCHANGED users
  ELSE IF id = actor
  THEN /\ last' = ActorReply("toggleUserStatus", actor, id, 400, MsgOwnAccount, users[id])
       /\ UNCHANGED users
  ELSE /\ users' = [users EXCEPT ![id].isActive = isActive]
       /\ last' = ActorReply("toggleUserStatus", actor, id, 200, MsgOk, users[id])

\* the handler of a request that went through the middleware earlier
toggleUserStatus(r) ==
  /\ BagIn(r, inflight)
  /\ r.op = "toggleUserStatus"
  /\ inflight' = inflight (-) SetToBag({r})
  /\ UNCHANGED <<products, leads, now>>
  /\ toggleUserStatusSave(r.actor, r.id, r.isActive)

\* PUT /api/auth/users/:id/status served without another request in between
toggleUserStatusServed(token, id, body) ==
  AdminOnly(token,
            /\ UNCHANGED <<products, leads, now, inflight>>
            /\ IF validateObjectId(id) # {}
               THEN /\ last' = Reply("toggleUserStatus", id, 400, MsgValidation, {"id"}, <<>>)
                    /\ UNCHANGED users
               ELSE toggleUserStatusSave(authenticate(token, now).user, id, body.isActive))

\* GET /api/products/admin/stats: the $group over all products
getProductStats ==
  /\ UNCHANGED <<products, leads, now, inflight, users>>
  /\ LET all == {id \in DOMAIN products : products[id] # Gone}
     IN last' = [op |-> "getProductStats", id |-> NoId, code |-> 200, msg |-> MsgOk,
                 errors |-> {}, before |-> <<>>,
                 totalProducts |-> Cardinality(all),
                 activeProducts |-> Cardinality({id \in all : products[id].isActive}),
                 lowStockProducts |-> Cardinality({id \in all : products[id].stock <= 5})]

\* GET /api/leads/export: the rows in the order of sort({createdAt: -1})
exportLeadsRows(q) ==
  /\ UNCHANGED <<products, leads, now, inflight, users>>
  /\ last' = ListReply("exportLeads", q, 200, MsgOk, {},
                       SortLeads(exportLeads(q)), NoPagination, 0)

\* GET /api/leads/:id: the response
getLeadByIdReply(id) ==
  /\ UNCHANGED <<products, leads, now, inflight, users>>
  /\ IF validateObjectId(id) # {}
     THEN last' = Reply("getLeadById", id, 400, MsgValidation, {"id"}, <<>>)
     ELSE IF getLeadById(id) = <<>>
     THEN last' = Reply("getLeadById", id, 404, MsgLeadNotFound, {}, <<>>)
     ELSE last' = Reply("getLeadById", id, 200, MsgOk, {}, getLeadById(id))

Tick ==
  /\ now < MaxTime
  /\ now' = now + 1
  /\ UNCHANGED <<products, leads, last, inflight, users>>

(***************************************************************************)
(* Specifications.  The store starts as utils/seed.js leaves it (one       *)
(* seeded product, no lead) or, where said, with one lead just created.    *)
(***************************************************************************)
NoReply == Reply("none", NoId, 0, MsgOk, {}, <<>>)

SeedProduct == NewProduct(0)

FreshLead == NewLead(TelIntl, 1, 0)

UpdateBody(status, notes, assignedTo, followUpDate) ==
  [status |-> status, notes |-> notes, assignedTo |-> assignedTo,
   followUpDate |-> followUpDate]

\* --- SpecLead: every lead route, and the (de)activation of the product ----
InitLead ==
  /\ products = <<SeedProduct>>
  /\ leads = <<>>
  /\ now = 0
  /\ last = NoReply
  /\ inflight = EmptyBag
  /\ users = <<SeedAdmin>>

LeadCreate ==
  \E tel \in {TelIntl, TelLocal, TelBad}, produit \in {NoId, 1, 2} :
    createLead([tel |-> tel, produit |-> produit])

LeadUpdate ==
  \E id \in 0 .. MaxLeads, status \in {Undefined, "contacte", "converti", "bogus"},
     assignedTo \in {NoId} \cup UserIds :
    updateLead(id, UpdateBody(status, <<>>, assignedTo, Undefined))

LeadArchive == \E id \in 0 .. MaxLeads : deleteLead(id)

LeadAssign ==
  \E id \in 0 .. MaxLeads, assignedTo \in {NoId} \cup UserIds :
    assignLead(id, [assignedTo |-> assignedTo, notes |-> <<>>])

LeadFollowUp ==
  \E id \in 0 .. MaxLeads, followUpDate \in {Undefined, toISOString(0)} :
    scheduleFollowUp(id, [followUpDate |-> followUpDate, notes |-> <<>>])

ProductDeactivate == \E id \in {1, 2} : deleteProduct(id)

ProductReactivate ==
  \E id \in {1, 2} : updateProduct(id, [stock |-> Undef, isActive |-> "true"])

ProductPurge == \E id \in {1, 2} : permanentDeleteProduct(id)

NextLead ==
  \/ LeadCreate
  \/ LeadUpdate
  \/ LeadArchive
  \/ LeadAssign
  \/ LeadFollowUp
  \/ ProductDeactivate
  \/ ProductReactivate
  \/ ProductPurge

SpecLead == InitLead /\ [][NextLead]_vars

(***************************************************************************)
(* Properties of the lead lifecycle (SpecLead).                            *)
(***************************************************************************)
LegalStatuses == {"nouveau", "contacte", "interesse", "converti", "perdu"}

AllStatusesLegal == \A id \in LeadIds : leads[id].status \in LegalStatuses

IllegalStatusRejected ==
  last'.op = "updateLead" =>
    \A id \in 0 .. MaxLeads, assignedTo \in {NoId} \cup UserIds :
      updateLead(id, UpdateBody("bogus", <<>>, assignedTo, Undefined))
        => /\ leads' = leads
           /\ last'.code \in {400, 404}

\* C1: in every reachable state the status of every stored lead is one of
\* nouveau, contacte, interesse, converti, perdu, whatever requests were
\* served, and an update request carrying another status is answered with
\* an error and leaves the leads as they were.
C1_StatusAlwaysLegal == []AllStatusesLegal /\ [][IllegalStatusRejected]_vars

\* an update of an existing lead was refused because of its status
C1_Witness ==
  /\ last.op = "updateLead"
  /\ last.code = 400
  /\ "status" \in last.errors
  /\ last.id \in LeadIds

\* a request body createLead's validators and the schema both accept
ValidLeadBody(body) == validateLead(body) = {} /\ telValidator(body.tel)

CreateLeadOutcomes ==
  \A tel \in {TelIntl, TelLocal, TelBad}, produit \in {NoId, 1, 2} :
    LET body == [tel |-> tel, produit |-> produit]
    IN (last'.op = "createLead" /\ ValidLeadBody(body) /\ createLead(body)) =>
         /\ ~ProductExists(produit) => (last'.code = 404 /\ leads' = leads)
         /\ (ProductExists(produit) /\ ~products[produit].isActive)
              => (last'.code = 400 /\ leads' = leads)
         /\ (ProductExists(produit) /\ products[produit].isActive)
              => /\ last'.code = 201
                 /\ Len(leads') = Len(leads) + 1
                 /\ SubSeq(leads', 1, Len(leads)) = leads
                 /\ leads'[Len(leads')].status = "nouveau"
                 /\ leads'[Len(leads')].produit = produit

\* C3: a valid createLead request has one of three outcomes, by the product
\* it names: no such product - 404 and no lead stored; product inactive -
\* another error (400) and no lead stored; product active - exactly one
\* lead is added, with status nouveau.
C3_CreateLeadOutcomes == [][CreateLeadOutcomes]_vars

\* a lead was just created for an active product
C3_Witness ==
  /\ last.op = "createLead"
  /\ last.code = 201
  /\ last.id \in LeadIds
  /\ leads[last.id].status = "nouveau"
  /\ products[leads[last.id].produit].isActive

(***************************************************************************)
(* SpecTransitions: one lead, updateLead with each status of the enum,     *)
(* with and without a note.                                                *)
(***************************************************************************)
InitTransitions ==
  /\ products = <<SeedProduct>>
  /\ leads = <<FreshLead>>
  /\ now = 0
  /\ last = NoReply
  /\ inflight = EmptyBag
  /\ users = <<SeedAdmin>>

StatusUpdate ==
  \E status \in LeadStatusEnum, notes \in {<<>>, <<NoteA>>} :
    updateLead(1, UpdateBody(status, notes, NoId, Undefined))

NextTransitions == StatusUpdate \/ Tick

SpecTransitions == InitTransitions /\ [][NextTransitions]_vars

TransitionAllowed ==
  last'.op = "updateLead" =>
    \A to \in LegalStatuses :
      /\ updateLead(1, UpdateBody(to, <<>>, NoId, Undefined))
           => (last'.code = 200 /\ leads'[1].status = to)
      /\ updateLead(1, UpdateBody(to, <<NoteA>>, NoId, Undefined))
           => (last'.code = 200 => leads'[1].status = to)

\* C2: no transition between statuses is forbidden: whatever the present
\* status of a lead, an update to any of the five statuses (without a note)
\* succeeds and stores the requested status, and with a note a successful
\* update stores it too; converti -> perdu and the other "backward" pairs
\* included.
C2_AnyTransitionAllowed == [][TransitionAllowed]_vars

\* a converted lead was just set to perdu
C2_Witness ==
  /\ last.op = "updateLead"
  /\ last.code = 200
  /\ last.before # <<>>
  /\ last.before.status = "converti"
  /\ leads[1].status = "perdu"

(***************************************************************************)
(* Archived leads in the listings and the statistics (SpecLead).           *)
(***************************************************************************)
NoQuery == [status |-> Undefined, assignedTo |-> NoId]

\* the identifiers of the leads that are not archived
Unarchived == {id \in LeadIds : ~leads[id].isArchived}

\* the count of the non-archived leads by status
UnarchivedByStatus ==
  {[status |-> st, count |-> Cardinality({id \in Unarchived : leads[id].status = st})] :
     st \in {leads[id].status : id \in Unarchived}}

\* C8 (as the specification states it): an archived lead is in no default
\* listing (admin list, my-leads, export, due for follow-up) and is counted
\* in no statistic (by status, per day, top products, conversion), while a
\* fetch by its identifier still returns it.
C8_ArchivedExcluded ==
  /\ \A id \in LeadIds : leads[id].isArchived =>
       /\ id \notin getAllLeads(NoQuery)
       /\ \A u \in UserIds : id \notin getMyLeads(u, NoQuery)
       /\ id \notin exportLeads(NoQuery)
       /\ id \notin Lead_getNeedingFollowUp(now)
       /\ getLeadById(id) = leads[id]
  /\ Lead_getStats = UnarchivedByStatus
  /\ \A g \in recentStats(now) :
       g.count = Cardinality({id \in Unarchived : leads[id].createdAt = g.day})
  /\ \A g \in topProducts :
       g.count = Cardinality({id \in Unarchived : leads[id].produit = g.product})
  /\ totalLeads = Cardinality(Unarchived)
  /\ convertedLeads = Cardinality({id \in Unarchived : leads[id].status = "converti"})

\* C8 without the count by status: what the other queries do guarantee
C8_ArchivedExcludedButByStatus ==
  /\ \A id \in LeadIds : leads[id].isArchived =>
       /\ id \notin getAllLeads(NoQuery)
       /\ \A u \in UserIds : id \notin getMyLeads(u, NoQuery)
       /\ id \notin exportLeads(NoQuery)
       /\ id \notin Lead_getNeedingFollowUp(now)
       /\ getLeadById(id) = leads[id]
  /\ \A g \in recentStats(now) :
       g.count = Cardinality({id \in Unarchived : leads[id].createdAt = g.day})
  /\ \A g \in topProducts :
       g.count = Cardinality({id \in Unarchived : leads[id].produit = g.product})
  /\ totalLeads = Cardinality(Unarchived)
  /\ convertedLeads = Cardinality({id \in Unarchived : leads[id].status = "converti"})

(***************************************************************************)
(* SpecFollowUp: a lead is given a follow-up date, moved to another status *)
(* and archived while the clock advances.                                  *)
(***************************************************************************)
FollowUpSchedule ==
  \E d \in Times :
    scheduleFollowUp(1, [followUpDate |-> toISOString(d), notes |-> <<>>])

FollowUpStatus ==
  \E status \in {"contacte", "converti", "perdu"} :
    updateLead(1, UpdateBody(status, <<>>, NoId, Undefined))

FollowUpArchive == deleteLead(1)

NextFollowUp ==
  \/ FollowUpSchedule
  \/ FollowUpStatus
  \/ FollowUpArchive
  \/ Tick

SpecFollowUp == InitTransitions /\ [][NextFollowUp]_vars

\* the leads the specification says are due for a follow-up
DueForFollowUp ==
  {id \in LeadIds : /\ ~leads[id].isArchived
                    /\ leads[id].followUpDate # NoDate
                    /\ leads[id].followUpDate <= now
                    /\ leads[id].status \notin {"converti", "perdu"}}

\* scheduleFollowUp with a date not after now and no note, on a lead that is
\* open and not archived, makes the lead due
ScheduledPastIsDue ==
  last'.op = "scheduleFollowUp" =>
    \A id \in LeadIds, d \in Times :
      ( /\ scheduleFollowUp(id, [followUpDate |-> toISOString(d), notes |-> <<>>])
        /\ LeadExists(id)
        /\ d <= now
        /\ ~leads[id].isArchived
        /\ leads[id].status \notin {"converti", "perdu"} )
      => id \in Lead_getNeedingFollowUp(now)'

\* a successful update to converti takes the lead out of the result
ConvertedIsNotDue ==
  last'.op = "updateLead" =>
    \A id \in LeadIds :
      ( /\ updateLead(id, UpdateBody("converti", <<>>, NoId, Undefined))
        /\ LeadExists(id) )
      => id \notin Lead_getNeedingFollowUp(now)'

\* C4: at every instant getNeedingFollowUp returns exactly the leads that are
\* not archived, have a follow-up date at or before now and a status other
\* than converti and perdu; a lead given a past follow-up date without a
\* note is returned, and is no longer returned once its status is converti.
C4_DueForFollowUpExact ==
  /\ [](Lead_getNeedingFollowUp(now) = DueForFollowUp)
  /\ [][ScheduledPastIsDue]_vars
  /\ [][ConvertedIsNotDue]_vars

\* a lead that was due, its follow-up date in the past and its log empty,
\* has just been converted and is not returned any more
C4_Witness ==
  /\ last.op = "updateLead"
  /\ last.code = 200
  /\ last.before # <<>>
  /\ last.before.followUpDate # NoDate
  /\ last.before.followUpDate < now
  /\ last.before.notes = <<>>
  /\ last.before.status = "nouveau"
  /\ ~last.before.isArchived
  /\ leads[last.id].status = "converti"
  /\ last.id \notin Lead_getNeedingFollowUp(now)

(***************************************************************************)
(* SpecNotes: one lead; notes are sent with each of the four operations    *)
(* that write the log, while the clock advances.  Two notes of 470         *)
(* characters fit in the 1000 characters of the path, a third does not.    *)
(***************************************************************************)
NoteInputs == {<<NoteA>>, <<NoteB>>}

NoteOnly(n) == updateLead(1, UpdateBody(Undefined, n, NoId, Undefined))

NoteStatus(n) == updateLead(1, UpdateBody("contacte", n, NoId, Undefined))

NoteAssign(n) == assignLead(1, [assignedTo |-> 1, notes |-> n])

NoteFollowUp(n) == scheduleFollowUp(1, [followUpDate |-> toISOString(0), notes |-> n])

NextNotes ==
  \/ \E n \in NoteInputs : NoteOnly(n)
  \/ \E n \in NoteInputs : NoteStatus(n)
  \/ \E n \in NoteInputs \cup {<<NoteA, BlankLine>>} : NoteAssign(n)
  \/ \E n \in NoteInputs : NoteFollowUp(n)
  \/ Tick

SpecNotes == InitTransitions /\ [][NextNotes]_vars

\* the entry the specification describes: timestamp, separator, tag, note
StampedEntry(tag, n, t) == <<toISOString(t), Colon>> \o tag \o n

\* C5 (as the specification states it): every note-only update, the first
\* one on the empty log of a new lead included, leaves the earlier log in
\* place and adds the note prefixed with the timestamp of the call, so that
\* after two calls both notes are in the log, in order, each with its own
\* timestamp.
C5_EachNoteStamped ==
  [][last'.op = "updateLead" =>
       \A n \in NoteInputs :
         (NoteOnly(n) /\ last'.code = 200) =>
           /\ IsPrefix(leads[1].notes, leads'[1].notes)
           /\ IsSuffix(StampedEntry(<<>>, n, now), leads'[1].notes)]_vars

\* C7 (as the specification states it): an assignment (a follow-up
\* scheduling) with a note adds an entry with the timestamp of the call and
\* the tag of the operation, whatever the log held before, the empty log
\* included.
C7_EntryTagged ==
  [][\A n \in NoteInputs :
       /\ (last'.op = "assignLead" /\ NoteAssign(n) /\ last'.code = 200)
            => IsSuffix(StampedEntry(<<TagAssigned>>, n, now), leads'[1].notes)
       /\ (last'.op = "scheduleFollowUp" /\ NoteFollowUp(n) /\ last'.code = 200)
            => IsSuffix(StampedEntry(<<TagFollowUp>>, n, now), leads'[1].notes)]_vars

\* the four operations with the note n
WritesNote(n) == NoteOnly(n) \/ NoteStatus(n) \/ NoteAssign(n) \/ NoteFollowUp(n)

Quantities == {Num(q) : q \in (0 - MaxQty) .. MaxQty} \cup {Str("5"), Undef}

Operations == {"set", "add", "subtract", "reset", Undefined}

StockEdit ==
  \E id \in ProductIds, stock \in {Num(-1), Num(MaxStock), Undef} :
    \E isActive \in {Undefined, "true"} :
      updateProduct(id, [stock |-> stock, isActive |-> isActive])

StockAdjust ==
  \E id \in 0 .. MaxProducts, quantity \in Quantities, operation \in Operations :
    updateStock(id, [quantity |-> quantity, operation |-> operation])

StockDeactivate == \E id \in ProductIds : deleteProduct(id)

NextStock ==
  \/ StockEdit
  \/ StockAdjust
  \/ StockDeactivate

SpecStock == InitLead /\ [][NextStock]_vars

\* the stock of every product of the collection is at least 0
StockNonNegative ==
  \A id \in DOMAIN products : ProductExists(id) => products[id].stock >= 0

\* C9: the stock stored for a product is at least 0 in every reachable
\* state, and it is at least 0 after every stock adjustment, whatever the
\* operation and the sign and size of the quantity.
C9_StockNeverNegative ==
  /\ []StockNonNegative
  /\ [][last'.op = "updateStock" =>
          \A id \in DOMAIN products' :
            ProductExists(id)' => products'[id].stock >= 0]_vars

\* an adjustment that would have made the stock negative was refused
C9_Witness ==
  /\ last.op = "updateStock"
  /\ last.code = 400
  /\ "stock" \in last.errors
  /\ ProductExists(last.id)
  /\ products[last.id].stock >= 0

\* the stock the specification says an adjustment stores
SpecifiedStock(s, q, operation) ==
  CASE operation = "set" -> Max0(q)
    [] operation = "add" -> s + q
    [] operation = "subtract" -> Max0(s - q)

NonNumericRejected ==
  \A id \in {last'.id} \cap ProductIds, quantity \in {Str("5"), Undef},
     operation \in Operations :
    updateStock(id, [quantity |-> quantity, operation |-> operation])
      => (last'.code = 400 /\ products' = products)

\* C10 (as the specification states it): on a product with stock s, set
\* stores max(0, q), add stores s + q and subtract stores max(0, s - q) for
\* every numeric q, and a quantity that is not a number is rejected with the
\* stock unchanged.
C10_StoresSpecified ==
  [][last'.op = "updateStock" =>
       /\ \A id \in {last'.id} \cap ProductIds, q \in (0 - MaxQty) .. MaxQty,
             operation \in {"set", "add", "subtract"} :
            ( /\ ProductExists(id)
              /\ updateStock(id, [quantity |-> Num(q), operation |-> operation]) )
            => products'[id].stock = SpecifiedStock(products[id].stock, q, operation)
       /\ NonNumericRejected]_vars

\* C10 (amended): set stores max(0, q) and subtract stores max(0, s - q);
\* add stores s + q when s + q is at least 0, and is refused with a
\* validation error on stock, the stock unchanged, when s + q is negative;
\* a quantity that is not a number is rejected with the stock unchanged.
C10_StoresSpecifiedOrRejects ==
  [][last'.op = "updateStock" =>
       /\ \A id \in {last'.id} \cap ProductIds, q \in (0 - MaxQty) .. MaxQty,
             operation \in {"set", "add", "subtract"} :
            ( /\ ProductExists(id)
              /\ updateStock(id, [quantity |-> Num(q), operation |-> operation]) )
            => IF operation = "add" /\ products[id].stock + q < 0
               THEN /\ products' = products
                    /\ last'.code = 400
                    /\ last'.errors = {"stock"}
               ELSE /\ products'[id].stock = SpecifiedStock(products[id].stock, q, operation)
                    /\ last'.code = 200
       /\ NonNumericRejected]_vars

\* a stock of at least 2 was just lowered to 1 or more by an adjustment
C10_Witness ==
  /\ last.op = "updateStock"
  /\ last.code = 200
  /\ last.before # <<>>
  /\ last.before.stock >= 2
  /\ products[last.id].stock >= 1
  /\ products[last.id].stock < last.before.stock

(***************************************************************************)
(* The stock status of the stored products (SpecStock).                    *)
(***************************************************************************)
\* C11: for the stock s of every stored product (an integer, at least 0),
\* stockStatus is out_of_stock iff s = 0, low_stock iff 1 <= s <= 5 and
\* in_stock iff s > 5.
C11_StockStatusBands ==
  \A id \in DOMAIN products :
    ProductExists(id) =>
      LET s == products[id].stock
      IN /\ s >= 0
         /\ stockStatus(s) = "out_of_stock" <=> s = 0
         /\ stockStatus(s) = "low_stock" <=> (1 <= s /\ s <= 5)
         /\ stockStatus(s) = "in_stock" <=> s > 5

\* a stock adjustment has just brought a product to the upper edge of the
\* low band
C11_Witness ==
  /\ last.op = "updateStock"
  /\ last.code = 200
  /\ products[last.id].stock = 5
  /\ stockStatus(products[last.id].stock) = "low_stock"

(***************************************************************************)
(* SpecListing: a catalogue of up to MaxListed products, or up to          *)
(* MaxListed leads, of three kinds each, is listed, searched and ranked    *)
(* with every kind of query string.                                        *)
(***************************************************************************)
MaxListed == 2

\* the two products of the example, a Mode product at 45 and a phone at 299
\* (featured, viewed twice), and a deactivated Mode product
ProductKinds ==
  {[NewProduct(10) EXCEPT !.prix = 45, !.categorie = "Mode", !.nom = <<"r", "o", "b", "e">>],
   [NewProduct(10) EXCEPT !.featured = TRUE, !.views = 2],
   [NewProduct(10) EXCEPT !.isActive = FALSE, !.categorie = "Mode"]}

\* a new lead, a converted lead assigned to the user, an archived lead
LeadKinds ==
  {FreshLead,
   [FreshLead EXCEPT !.status = "converti", !.assignedTo = 1],
   [FreshLead EXCEPT !.isArchived = TRUE, !.assignedTo = 1]}

\* the documents in the order of their creation
Created(docs) == [i \in DOMAIN docs |-> [docs[i] EXCEPT !.createdAt = i]]

InitListing ==
  /\ \E n \in 0 .. MaxListed :
       \/ /\ \E docs \in [1 .. n -> ProductKinds] : products = Created(docs)
          /\ leads = <<>>
       \/ /\ \E docs \in [1 .. n -> LeadKinds] : leads = Created(docs)
          /\ products = <<SeedProduct>>
  /\ now = MaxTime
  /\ last = NoReply
  /\ inflight = EmptyBag
  /\ users = <<SeedAdmin>>

PageInputs == {Undef, Num(0), Num(1), Num(2), Num(3)}

LimitInputs == {Undef, Num(1), Num(2), Num(MaxPageLimit + 1)}

ProductQuery(page, limit, categorie, minPrice, maxPrice) ==
  [page |-> page, limit |-> limit, categorie |-> categorie, minPrice |-> minPrice,
   maxPrice |-> maxPrice, sortBy |-> Undefined, sortOrder |-> Undefined,
   search |-> <<>>, featured |-> Undefined]

LeadQuery(page, limit, status, assignedTo) ==
  [page |-> page, limit |-> limit, status |-> status, assignedTo |-> assignedTo]

CatalogPaged ==
  \E page \in PageInputs, limit \in LimitInputs :
    getAllProducts(ProductQuery(page, limit, Undefined, Undef, Undef))

CatalogFiltered ==
  \E categorie \in {Undefined, "Mode", "Electronique", "Jouets"},
     minPrice \in {Undef, Num(50)}, maxPrice \in {Undef, Num(45)} :
    getAllProducts(ProductQuery(Undef, Undef, categorie, minPrice, maxPrice))

CatalogSearch ==
  \E page \in {Undef, Num(2)}, q \in {<<>>, <<"o">>, <<"a">>} :
    searchProducts([page |-> page, limit |-> Num(1), q |-> q])

CatalogPopular ==
  \E limit \in {Undef, Num(1), Num(2), Num(MaxPageLimit + 1)} :
    getPopularProducts([limit |-> limit])

CatalogFeatured ==
  \E limit \in {Undef, Num(1), Num(MaxPageLimit + 1)} :
    getFeaturedProducts([limit |-> limit])

LeadsPaged ==
  \E page \in PageInputs, limit \in LimitInputs :
    getAllLeadsPage(LeadQuery(page, limit, Undefined, NoId))

LeadsFiltered ==
  \E status \in {"converti", "bogus"}, assignedTo \in {NoId} \cup UserIds :
    getAllLeadsPage(LeadQuery(Undef, Undef, status, assignedTo))

LeadsMine ==
  \E page \in {Undef, Num(2)}, limit \in {Undef, Num(1), Num(MaxPageLimit + 1)},
     status \in {Undefined, "bogus"}, user \in UserIds :
    getMyLeadsPage(user, LeadQuery(page, limit, status, NoId))

NextListing ==
  \/ CatalogPaged
  \/ CatalogFiltered
  \/ CatalogSearch
  \/ CatalogPopular
  \/ CatalogFeatured
  \/ LeadsPaged
  \/ LeadsFiltered
  \/ LeadsMine
  \/ getLeadStats

SpecListing == InitListing /\ [][NextListing]_vars

\* the documents a paginated listing matched, in the order of its sort
Matched ==
  CASE last.op = "getAllProducts" ->
         SortIds(ProductFind(getAllProductsFilter(last.query), <<>>),
                 [id \in DOMAIN products |-> <<products[id].createdAt>>], TRUE)
    [] last.op = "searchProducts" ->
         SortByViews(ProductFind(<< <<"isActive", "$eq", TRUE>> >>, last.query.q))
    [] last.op = "getAllLeads" -> SortLeads(getAllLeads(last.query))
    [] last.op = "getMyLeads" -> SortLeads(getMyLeads(1, last.query))

\* the last request was a paginated listing that was served
Paged ==
  /\ last.op \in {"getAllProducts", "searchProducts", "getAllLeads", "getMyLeads"}
  /\ last.code = 200

\* C12: a paginated listing (products, product search, leads) served for
\* page p >= 1 and limit l in 1..100 returns the matching records of the
\* positions (p-1)*l + 1 to p*l of the sort order, in that order: it skips
\* exactly (p-1)*l records and returns at most l.
C12_SkipAndLimit ==
  Paged =>
    LET p == last.pagination.currentPage
        l == last.pagination.itemsPerPage
    IN /\ p >= 1 /\ l \in 1 .. MaxPageLimit
       /\ Len(last.data) <= l
       /\ Len(last.data) = Max0(IF Len(Matched) - (p - 1) * l > l
                                THEN l ELSE Len(Matched) - (p - 1) * l)
       /\ \A i \in DOMAIN last.data : last.data[i] = Matched[(p - 1) * l + i]

\* the second page of a listing of two records, one record a page
C12_Witness ==
  /\ Paged
  /\ last.pagination.currentPage = 2
  /\ last.pagination.itemsPerPage = 1
  /\ Len(Matched) = 2
  /\ last.data = <<Matched[2]>>

\* the number of pages that hold n records, l a page
PagesFor(n, l) == CHOOSE k \in 0 .. n : k * l >= n /\ (k = 0 \/ (k - 1) * l < n)

\* C13: in every paginated response totalItems is the number of records
\* matching the filters, totalPages the least number of pages of limit
\* records that hold them, hasNextPage iff page < totalPages, hasPrevPage
\* iff page > 1, nextPage is page+1 or null, prevPage is page-1 or null.
C13_Envelope ==
  Paged =>
    LET m == last.pagination
    IN /\ m.totalItems = Len(Matched)
       /\ m.totalPages = PagesFor(m.totalItems, m.itemsPerPage)
       /\ m.hasNextPage <=> m.currentPage < m.totalPages
       /\ m.hasPrevPage <=> m.currentPage > 1
       /\ m.nextPage = IF m.hasNextPage THEN m.currentPage + 1 ELSE Null
       /\ m.prevPage = IF m.hasPrevPage THEN m.currentPage - 1 ELSE Null

\* one record in pages of two: one page, and page 2 has a previous page only
C13_Witness ==
  /\ Paged
  /\ last.pagination.totalItems = 1
  /\ last.pagination.itemsPerPage = 2
  /\ last.pagination.totalPages = 1
  /\ last.pagination.currentPage = 2
  /\ last.pagination.prevPage = 1
  /\ last.pagination.nextPage = Null

\* the last request was a paginated listing with a well-formed query string
WellFormed ==
  /\ last.op \in {"getAllProducts", "searchProducts", "getAllLeads", "getMyLeads"}
  /\ validatePagination(last.query) = {}
  /\ last.op = "getAllProducts" => validateProductQuery(last.query) = {}
  /\ last.op = "searchProducts" => last.query.q # <<>>

\* C14: a well-formed request for a page after the last one (any page when
\* nothing matches) is served: status 200, no data, the envelope giving the
\* true totalItems and totalPages, hasNextPage false and nextPage null.
C14_BeyondLastPage ==
  (WellFormed /\ OrDefault(last.query.page, 1)
                   > PagesFor(Len(Matched), OrDefault(last.query.limit, last.limit)))
  => /\ last.code = 200
     /\ last.data = <<>>
     /\ last.pagination.totalItems = Len(Matched)
     /\ last.pagination.totalPages = PagesFor(Len(Matched), last.pagination.itemsPerPage)
     /\ ~last.pagination.hasNextPage
     /\ last.pagination.nextPage = Null

\* page 3 of a listing whose two records fill one page
C14_Witness ==
  /\ WellFormed
  /\ last.query.page = Num(3)
  /\ Len(Matched) = 2
  /\ last.pagination.totalPages = 1
  /\ last.data = <<>>
  /\ last.code = 200

\* the products the specification says a product listing returns
Listed(q) ==
  {id \in DOMAIN products :
     /\ ProductExists(id)
     /\ products[id].isActive
     /\ q.categorie # Undefined => products[id].categorie = q.categorie
     /\ q.minPrice # Undef => products[id].prix >= q.minPrice.value
     /\ q.maxPrice # Undef => products[id].prix <= q.maxPrice.value}

\* C15: a product listing that fits in one page returns exactly the active
\* products that satisfy every filter given - category, minPrice and
\* maxPrice, each bound inclusive, each optional. With a Mode product at 45
\* and a product at 299, minPrice=50 gives the 299 product alone and
\* categorie=Mode with minPrice=50 gives nothing.
C15_FiltersIntersect ==
  (last.op = "getAllProducts" /\ last.code = 200 /\ last.query.page = Undef
     /\ last.query.limit = Undef)
  => {last.data[i] : i \in DOMAIN last.data} = Listed(last.query)

\* the example: of the Mode product at 45 and the product at 299, minPrice=50
\* has returned the second alone
C15_Witness ==
  /\ last.op = "getAllProducts"
  /\ last.code = 200
  /\ Len(products) = 2
  /\ products[1].prix = 45 /\ products[1].categorie = "Mode" /\ products[1].isActive
  /\ products[2].prix = 299 /\ products[2].isActive
  /\ last.query.minPrice = Num(50)
  /\ last.query.categorie = Undefined
  /\ last.query.maxPrice = Undef
  /\ last.data = <<2>>

\* C16 (as the specification states it): a listing request whose category
\* (products) or status (leads, my-leads) is outside the enumerated set is
\* answered with a validation error, never with a successful result.
C16_FilterValueValidated ==
  /\ (last.op = "getAllProducts" /\ last.query.categorie # Undefined
        /\ last.query.categorie \notin ProductCategories) => last.code = 400
  /\ (last.op \in {"getAllLeads", "getMyLeads"} /\ last.query.status # Undefined
        /\ last.query.status \notin LegalStatuses) => last.code = 400

\* C17 (as the specification states it): every listing that is served -
\* product list, search, popular, featured, lead list, my-leads - is served
\* with a limit between 1 and 100 and returns at most 100 records.
C17_LimitAtMost100 ==
  (last.op \in {"getAllProducts", "searchProducts", "getPopularProducts",
                "getFeaturedProducts", "getAllLeads", "getMyLeads"}
     /\ last.code = 200)
  => /\ last.limit \in 1 .. MaxPageLimit
     /\ Len(last.data) <= MaxPageLimit

\* C18: the conversion figures of the statistics count the non-archived
\* leads and the converted ones among them; the rate is their quotient as a
\* percentage, to the nearest hundredth, and exactly 0 when no lead is
\* counted.
C18_ConversionRate ==
  last.op = "getLeadStats" =>
    LET total == Cardinality(Unarchived)
        converted == Cardinality({id \in Unarchived : leads[id].status = "converti"})
        rate == last.conversion.rate
    IN /\ last.conversion.total = total
       /\ last.conversion.converted = converted
       /\ total = 0 => rate = 0
       /\ total > 0 => /\ 2 * (rate * total - converted * 10000) <= total
                       /\ 2 * (converted * 10000 - rate * total) <= total

\* of two leads, one archived and one converted: 1 of 1, 100 percent
C18_Witness ==
  /\ last.op = "getLeadStats"
  /\ Len(leads) = 2
  /\ \E id \in LeadIds : leads[id].isArchived
  /\ last.conversion.total = 1
  /\ last.conversion.converted = 1
  /\ last.conversion.rate = 10000


(***************************************************************************)
(* SpecViews: detail fetches of several clients, interleaved with one      *)
(* another and with the update, the deactivation and the deletion of the   *)
(* product by an admin.                                                    *)
(***************************************************************************)
ViewFetch == \E id \in 0 .. MaxProducts : getProductById(id)

ViewSave == \E r \in BagToSet(inflight) : getProductByIdSave(r)

ViewEdit ==
  \E isActive \in {"true", "false"} :
    updateProduct(1, [stock |-> Undef, isActive |-> isActive])

ViewDeactivate == deleteProduct(1)

ViewDelete == permanentDeleteProduct(1)

NextViews ==
  \/ ViewFetch
  \/ ViewSave
  \/ ViewEdit
  \/ ViewDeactivate
  \/ ViewDelete

SpecViews == InitLead /\ [][NextViews]_vars

\* the step is the second half of a detail fetch that had loaded r
Completes(r) ==
  /\ BagIn(r, inflight)
  /\ inflight' = inflight (-) SetToBag({r})
  /\ last'.op = "getProductById"
  /\ last'.id = r.id
  /\ last'.before = r.doc

\* C19: a detail fetch that answers 200 found the product active and leaves
\* in the store the view counter it read plus exactly 1, all other fields of
\* the stored product as they were; the save cannot be rejected, so a fetch
\* whose product is still in the collection answers 200; a fetch that answers
\* 404 (no product, or an inactive one) leaves every product as it was
C19_ViewCounted ==
  [][/\ \A r \in BagToSet(inflight) :
          Completes(r) =>
            /\ r.doc.isActive
            /\ ProductExists(r.id) => last'.code = 200
            /\ last'.code = 200 =>
                 /\ ProductExists(r.id)
                 /\ products'[r.id] = [products[r.id] EXCEPT !.views = r.doc.views + 1]
     /\ (last'.op = "getProductById" /\ last'.code = 404 /\ last' # last) =>
          /\ products' = products
          /\ \/ ~ProductExists(last'.id)
             \/ ~products[last'.id].isActive]_vars

\* a second fetch answered 200 and the stored counter is what it read plus 1
C19_Witness ==
  /\ last.op = "getProductById"
  /\ last.code = 200
  /\ last.before.views = 1
  /\ ProductExists(last.id)
  /\ products[last.id].views = 2

\* C20: no step of any interleaving lowers the view counter of a product
C20_ViewsMonotonic ==
  [][\A id \in DOMAIN products :
       (ProductExists(id) /\ products'[id] # Gone) =>
          products'[id].views >= products[id].views]_vars


(***************************************************************************)
(* SpecUpdate: PUT /api/leads/:id on one lead with every combination of    *)
(* status, assignedTo, followUpDate and notes, and its archiving.          *)
(***************************************************************************)
UpdateNotes == {<<>>, <<NoteA>>}

UpdateOnlyNotes == \E n \in UpdateNotes : NoteOnly(n)

UpdateFields ==
  \E status \in {Undefined, "contacte"}, assignedTo \in {NoId, 1},
     followUpDate \in {Undefined, toISOString(1)}, n \in UpdateNotes :
    /\ status # Undefined \/ assignedTo # NoId \/ followUpDate # Undefined
    /\ updateLead(1, UpdateBody(status, n, assignedTo, followUpDate))

UpdateArchive == deleteLead(1)

NextUpdate ==
  \/ UpdateOnlyNotes
  \/ UpdateFields
  \/ UpdateArchive

SpecUpdate == InitTransitions /\ [][NextUpdate]_vars

\* C25: an updateLead request with notes and none of status, assignedTo and
\* followUpDate leaves every field of the lead but the notes log as it was
\* (status, assignedTo, followUpDate, isArchived, produit, nom, tel, message)
C25_NotesOnlyFrame ==
  [][last'.op = "updateLead" =>
       \A n \in UpdateNotes :
         NoteOnly(n) => leads'[1] = [leads[1] EXCEPT !.notes = leads'[1].notes]]_vars

\* a notes-only update has extended the log of a lead that is assigned,
\* scheduled, archived and no longer nouveau
C25_Witness ==
  /\ last.op = "updateLead"
  /\ last.code = 200
  /\ last.before.notes # leads[1].notes
  /\ last.before = [leads[1] EXCEPT !.notes = last.before.notes]
  /\ leads[1].status = "contacte"
  /\ leads[1].assignedTo = 1
  /\ leads[1].followUpDate = 1
  /\ leads[1].isArchived

\* C27: an updateLead request that is answered with an error leaves status,
\* assignedTo, followUpDate and notes of the stored lead as they were
C27_AllOrNothing ==
  [][(last'.op = "updateLead" /\ last'.code >= 400 /\ last'.id = 1) =>
       /\ leads'[1].status = leads[1].status
       /\ leads'[1].assignedTo = leads[1].assignedTo
       /\ leads'[1].followUpDate = leads[1].followUpDate
       /\ leads'[1].notes = leads[1].notes]_vars


\* C26: no step removes a lead or clears the archived flag of a lead: every
\* stored lead stays stored under its identifier, and a lead that is
\* archived is archived in the next state
C26_ArchivedForGood ==
  [][/\ Len(leads') >= Len(leads)
     /\ \A id \in DOMAIN leads :
          /\ id \in DOMAIN leads'
          /\ leads[id].isArchived => leads'[id].isArchived]_vars

\* an archived lead was archived again, or updated, and is still archived
C26_Witness ==
  /\ last.op \in {"deleteLead", "updateLead", "assignLead", "scheduleFollowUp"}
  /\ last.code = 200
  /\ last.before.isArchived
  /\ leads[last.id].isArchived


(***************************************************************************)
(* SpecSoftDelete: a catalogue of two products that an admin deactivates   *)
(* and edits while clients list, search and fetch them.                    *)
(***************************************************************************)
InitSoftDelete ==
  /\ products = Created(<<[NewProduct(1) EXCEPT !.categorie = "Mode", !.featured = TRUE],
                          [NewProduct(1) EXCEPT !.featured = TRUE]>>)
  /\ leads = <<>>
  /\ now = 0
  /\ last = NoReply
  /\ inflight = EmptyBag
  /\ users = <<SeedAdmin>>

SoftDelete == \E id \in ProductIds : deleteProduct(id)

SoftEdit ==
  \E id \in ProductIds, isActive \in {Undefined, "true", "false"} :
    updateProduct(id, [stock |-> Undef, isActive |-> isActive])

SoftList == getAllProducts(ProductQuery(Undef, Undef, Undefined, Undef, Undef))

SoftSearch == searchProducts([page |-> Undef, limit |-> Undef, q |-> <<"e">>])

SoftPopular == getPopularProducts([limit |-> Undef])

SoftFeatured == getFeaturedProducts([limit |-> Undef])

SoftFetch == getProductById(1)

NextSoftDelete ==
  \/ SoftDelete
  \/ SoftEdit
  \/ SoftList
  \/ SoftSearch
  \/ SoftPopular
  \/ SoftFeatured
  \/ getCategoriesStats
  \/ SoftFetch
  \/ ViewSave

SpecSoftDelete == InitSoftDelete /\ [][NextSoftDelete]_vars

PublicListings ==
  {"getAllProducts", "searchProducts", "getPopularProducts", "getFeaturedProducts"}

\* C21: a soft delete answered 200 leaves the product stored, with isActive
\* false and nothing else changed; an inactive product becomes active only
\* by an updateProduct of it; while it is inactive no public listing returns
\* it, the category counts do not count it, and a detail fetch that finds it
\* inactive answers 404 without counting a view
C21_SoftDeletedHidden ==
  /\ [][(last'.op = "deleteProduct" /\ last'.code = 200) =>
          /\ ProductExists(last'.id)
          /\ products'[last'.id] = [products[last'.id] EXCEPT !.isActive = FALSE]]_vars
  /\ [][\A id \in DOMAIN products :
          (ProductExists(id) /\ ~products[id].isActive) =>
             /\ products'[id].isActive =>
                  (last'.op = "updateProduct" /\ last'.id = id /\ last'.code = 200)
             /\ last'.op \in PublicListings =>
                  \A i \in DOMAIN last'.data : last'.data[i] # id
             /\ last'.op = "getCategoriesStats" =>
                  \A i \in DOMAIN last'.data :
                    last'.data[i].count <=
                      Cardinality({p \in DOMAIN products \ {id} :
                                     products[p].categorie = last'.data[i].name})
             /\ getProductById(id) =>
                  (last'.code = 404 /\ inflight' = inflight /\ products' = products)]_vars

\* the Mode product is soft-deleted and still stored, the category counts
\* just returned list the other category only
C21_Witness ==
  /\ ProductExists(1)
  /\ ~products[1].isActive
  /\ products[2].isActive
  /\ last.op = "getCategoriesStats"
  /\ Len(last.data) = 1


(***************************************************************************)
(* SpecLeadRace: visitors create leads for the seeded product while an     *)
(* admin deactivates and reactivates it.                                   *)
(***************************************************************************)
RaceCreate ==
  \E tel \in {TelIntl, TelLocal}, produit \in {1, 2} :
    createLeadCheck([tel |-> tel, produit |-> produit])

RaceInsert == \E r \in BagToSet(inflight) : createLeadInsert(r)

RaceDeactivate == deleteProduct(1)

RaceReactivate == updateProduct(1, [stock |-> Undef, isActive |-> "true"])

RacePurge == permanentDeleteProduct(1)

NextLeadRace ==
  \/ RaceCreate
  \/ RaceInsert
  \/ RaceDeactivate
  \/ RaceReactivate
  \/ RacePurge
  \/ Tick

SpecLeadRace == InitLead /\ [][NextLeadRace]_vars

\* C23: the insert of createLead does not look at the product again: a
\* request that passed the product check stores its lead (when the lead
\* passes the schema) whatever has become of the product since, inactive
\* or deleted included
C23_InsertWithoutRecheck ==
  [][\A r \in BagToSet(inflight) :
       (r.op = "createLead" /\ inflight' = inflight (-) SetToBag({r})
          /\ telValidator(r.body.tel)) =>
         /\ last'.code = 201
         /\ leads' = Append(leads, NewLead(r.body.tel, r.body.produit, now))]_vars

\* a lead has just been stored for a product that was inactive at the insert
C23_Witness ==
  /\ last.op = "createLead"
  /\ last.code = 201
  /\ ProductExists(leads[last.id].produit)
  /\ ~products[leads[last.id].produit].isActive


(***************************************************************************)
(* SpecLostUpdate: detail fetches of the seeded product and note-only      *)
(* updates of one lead that arrive together: every request reads the       *)
(* counter, or the log, before any request of its kind has written; the    *)
(* writes then follow in any order.                                        *)
(***************************************************************************)
LostFetch == products[1].views = 0 /\ getProductById(1)

LostNote ==
  /\ leads[1].notes = <<>>
  /\ \E n \in NoteInputs : updateLeadLoad(1, UpdateBody(Undefined, n, NoId, Undefined))

LostNoteSave == \E r \in BagToSet(inflight) : updateLeadSave(r)

NextLostUpdate ==
  \/ LostFetch
  \/ ViewSave
  \/ LostNote
  \/ LostNoteSave

SpecLostUpdate == InitTransitions /\ [][NextLostUpdate]_vars

\* C24: a request writes what it computed from the value it read, not from
\* the value stored when it writes.  A detail fetch that read the counter
\* before another fetch of the same value wrote leaves the counter where
\* that fetch put it (two fetches, one increment); a note-only update that
\* read the log before another update wrote leaves a log made of the log it
\* read and its own note, without the note of the other update
C24_LastWriterWins ==
  [][\A r \in BagToSet(inflight) :
       (inflight' = inflight (-) SetToBag({r}) /\ last'.code = 200) =>
         /\ r.op = "getProductById" =>
              /\ products'[r.id].views = r.doc.views + 1
              /\ products[r.id].views = r.doc.views + 1 =>
                   products'[r.id].views = products[r.id].views
         /\ r.op = "updateLead" =>
              /\ leads'[r.id].notes = AppendEntry(r.doc.notes, <<>>, r.body.notes, now)
              /\ (r.doc.notes = <<>> /\ leads[r.id].notes # <<>>) =>
                   /\ leads'[r.id].notes = r.body.notes
                   /\ leads[r.id].notes # r.body.notes =>
                        ~IsPrefix(leads[r.id].notes, leads'[r.id].notes)]_vars

\* a fetch and a note-only update are about to write: each read its value
\* (0 views, the empty log) before another request of its kind wrote
C24_Witness ==
  /\ products[1].views = 1
  /\ \E r \in BagToSet(inflight) : r.op = "getProductById" /\ r.doc.views = 0
  /\ leads[1].notes = <<NoteA>>
  /\ \E r \in BagToSet(inflight) :
       r.op = "updateLead" /\ r.doc.notes = <<>> /\ r.body.notes = <<NoteB>>


\* --- SpecAuth: every route behind authenticate, with every kind of token ---
\* the staff: the seeded administrator, a second administrator and a seller;
\* the lead is assigned to the seeded administrator
InitStaff ==
  /\ products = <<SeedProduct>>
  /\ leads = <<[FreshLead EXCEPT !.assignedTo = 1]>>
  /\ now = 0
  /\ last = NoReply
  /\ inflight = EmptyBag
  /\ users = <<SeedAdmin,
               updateLastLogin(NewUser("Staff", "gerant@", "Secret1", "admin"), 0),
               updateLastLogin(NewUser("Staff", "vendeur@", "Secret1", "user"), 0)>>

\* the Authorization headers of a request: none, a token signed with another
\* secret, an expired token, a token of each user and of users never stored
Tokens ==
  {NoToken, [generateToken(1, now) EXCEPT !.signed = FALSE], generateToken(1, now - TokenLife)}
  \cup {generateToken(id, now) : id \in 1 .. MaxUsers + 1}

RouteCreateProduct == Len(products) = 1 /\ createProduct([stock |-> Num(0)])

RouteUpdateProduct ==
  \E isActive \in {"true", "false"} :
    updateProduct(2, [stock |-> Undef, isActive |-> isActive])

RouteDeleteProduct == deleteProduct(2)

RoutePermanentDeleteProduct == permanentDeleteProduct(2)

RouteUpdateStock == updateStock(2, [quantity |-> Num(0), operation |-> "set"])

RouteGetAllLeads == getAllLeadsPage(LeadQuery(Undef, Undef, Undefined, NoId))

RouteUpdateLead == updateLead(1, UpdateBody(Undefined, <<>>, 1, Undefined))

RouteAssignLead == assignLead(1, [assignedTo |-> 1, notes |-> <<>>])

RouteScheduleFollowUp == scheduleFollowUp(1, [followUpDate |-> Undefined, notes |-> <<>>])

RouteGetAllUsers == \E role \in {Undefined, "admin"} : getAllUsers([role |-> role])

RouteToggleUserStatus(token) ==
  \E id \in {2, 3}, isActive \in BOOLEAN :
    toggleUserStatusServed(token, id, [isActive |-> isActive])

\* the routes behind authenticate and requireAdmin
AdminRoute(token) ==
  \/ AdminOnly(token, \/ RouteCreateProduct
                      \/ RouteUpdateProduct
                      \/ RouteDeleteProduct
                      \/ RoutePermanentDeleteProduct
                      \/ RouteUpdateStock
                      \/ getProductStats
                      \/ RouteGetAllLeads
                      \/ getLeadStats
                      \/ exportLeadsRows(NoQuery)
                      \/ getLeadByIdReply(1)
                      \/ RouteUpdateLead
                      \/ deleteLead(1)
                      \/ RouteAssignLead
                      \/ RouteScheduleFollowUp
                      \/ RouteGetAllUsers)
  \/ RouteToggleUserStatus(token)

RouteUpdateProfile(actor) ==
  \E name \in {Undefined, "Staff"} : updateProfile(actor, [name |-> name])

RouteChangePassword(actor) ==
  \E newPassword \in {Undefined, PasswordShort, "Secret1"} :
    changePassword(actor, [currentPassword |-> "Secret1", newPassword |-> newPassword])

\* the routes behind authenticate alone
UserRoute(token) ==
  Authenticated(token,
                \/ getProfile(authenticate(token, now).user)
                \/ RouteUpdateProfile(authenticate(token, now).user)
                \/ RouteChangePassword(authenticate(token, now).user)
                \/ getMyLeadsPage(authenticate(token, now).user,
                                  LeadQuery(Undef, Undef, Undefined, NoId)))

AuthAdmin == \E token \in Tokens : AdminRoute(token)

AuthUser == \E token \in Tokens : UserRoute(token)

AuthLogin ==
  \E email \in {"gerant@", "vendeur@", "nobody@", EmailBad},
     password \in {"Fiacre-19", "Secret1", Undefined} :
    login([email |-> email, password |-> password])

NextAuth ==
  \/ AuthAdmin
  \/ AuthUser
  \/ AuthLogin

SpecAuth == InitStaff /\ [][NextAuth]_vars

\* the token is signed by the server and not expired, and its user is stored
\* and active
ActiveUserToken(token) ==
  /\ token.signed
  /\ token.exp > now
  /\ token.id \in DOMAIN users
  /\ users[token.id].isActive

ActiveAdminToken(token) == ActiveUserToken(token) /\ users[token.id].role = "admin"

UsersRegister ==
  \E who \in {<<"Eve", "eve@">>, <<"Bob", "bob@">>, <<"Eve", "mireb@">>, <<"Eve", EmailBad>>},
     password \in {"Secret1", PasswordShort},
     role \in {"admin", Undefined} :
    /\ who[1] = "Eve" <=> role = "admin"
    /\ register([name |-> who[1], email |-> who[2], password |-> password, role |-> role])

UsersLogin ==
  \E email \in {"mireb@", "eve@"}, password \in {"Fiacre-19", "Secret1"} :
    login([email |-> email, password |-> password, role |-> "admin"])

UsersProfile ==
  \E token \in Tokens :
    Authenticated(token,
                  updateProfile(authenticate(token, now).user,
                                [name |-> "Staff", role |-> "admin"]))

UsersPassword ==
  \E token \in Tokens, currentPassword \in {"Fiacre-19", "Secret1"} :
    Authenticated(token,
                  changePassword(authenticate(token, now).user,
                                 [currentPassword |-> currentPassword,
                                  newPassword |-> "Secret1", role |-> "admin"]))

UsersToggle ==
  \E token \in Tokens, id \in 1 .. MaxUsers, isActive \in BOOLEAN :
    toggleUserStatusServed(token, id, [isActive |-> isActive, role |-> "admin"])

NextUsers ==
  \/ UsersRegister
  \/ UsersLogin
  \/ UsersProfile
  \/ UsersPassword
  \/ UsersToggle

SpecUsers == InitLead /\ [][NextUsers]_vars

ToggleServed ==
  \E token \in Tokens, id \in 1 .. MaxUsers, isActive \in BOOLEAN :
    toggleUserStatusServed(token, id, [isActive |-> isActive])

ToggleRequest ==
  \E token \in Tokens, id \in 1 .. MaxUsers :
    /\ BagCardinality(inflight) < 2
    /\ toggleUserStatusRoute(token, id, [isActive |-> FALSE])

ToggleApply == \E r \in BagToSet(inflight) : toggleUserStatus(r)

NextToggle ==
  \/ ToggleServed
  \/ ToggleRequest
  \/ ToggleApply

SpecToggle == InitStaff /\ [][NextToggle]_vars

ActiveAdmins == {id \in DOMAIN users : users[id].role = "admin" /\ users[id].isActive}

=============================================================================
